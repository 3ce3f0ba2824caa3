------------------------- MODULE LiveSessionProofs -------------------------
(***************************************************************************)
(* What the TLAPS proof system checks of LiveSession for every set of      *)
(* users, any number of connections and any size of boundaries: who the    *)
(* lobby and the game count on is who is connected, the game, the          *)
(* controller and the database agree on who plays, a connection told the   *)
(* end was told a durable one, and a Session is cancelled as abandoned     *)
(* only once the game was told of everyone.                                *)
(*                                                                         *)
(* The invariants come in layers, each inductive given the ones before it: *)
(* the lane, the connections, the lobby, the durable Session, what the     *)
(* game is told, and presence.                                             *)
(***************************************************************************)
EXTENDS LiveSession, SequenceTheorems, FiniteSetTheorems, TLAPS

(***************************************************************************)
(* The lane: what it holds while it works.                                 *)
(***************************************************************************)
\* Where a Start attempt or a recovery is on the lane.
StartAt  == {"checking", "scripting", "committing", "limits", "loading",
             "completing", "cancelling"}
EndingAt == {"ending", "telling", "endFailed"}

\* An idle lane keeps nothing; work outlives its execution only when the script
\* failed twice, who was disconnected is known only of a game about to be
\* resumed, and only an end has a cause.
LaneIsTidy ==
  /\ LaneAt("idle") => lane = IdleLane
  /\ lane.work # <<>> =>
       \/ LaneAt("executing")
       \/ lane.at \in EndingAt /\ lane.cause = "SCRIPT_FAILURE" /\ lane.for = NoConn
  /\ LaneAt("executing") => lane.for = NoConn
  /\ lane.resumed # {} => LaneAt("completing")
  /\ lane.cause # NoCause => lane.at \in EndingAt \cup {"cancelling"}

\* An attempt works on a lobby it froze, or on a Session ended meanwhile.
AttemptsFreeze ==
  lane.at \in StartAt \/ lane.for # NoConn \/ lane.cause = "GAME_START_FAILURE"
    => phase \in {"starting", "ended"}

LaneInv == LaneIsTidy /\ AttemptsFreeze

(***************************************************************************)
(* The connections.                                                        *)
(***************************************************************************)
\* A connection that was attempted has a user.
UsersConnect ==
  /\ \A c \in Conns : conn[c].at # "unused" => conn[c].user \in Users
  /\ lane.for # NoConn => conn[lane.for].at # "unused"

\* A user's current connection is their own and was admitted; the one a
\* recovery answers still waits for it; nobody admitted is forgotten.
ConnectionsAreOwned ==
  /\ \A u \in Users : players[u] # NoConn =>
       /\ conn[players[u]].user = u
       /\ conn[players[u]].at \notin AttachAt \cup {"unused", "replaced"}
  /\ lane.for # NoConn => conn[lane.for].at = "recovering"
  /\ NobodyIsForgotten

(***************************************************************************)
(* The lobby, open or frozen.                                              *)
(***************************************************************************)
LobbyIsConnected ==
  phase \in {"lobby", "starting"} =>
    /\ lobby = {u \in Users : players[u] # NoConn}
    /\ Cardinality(lobby) <= MaxPlayers
    /\ \A u \in lobby :
         /\ conn[players[u]].at # "closing"
         /\ phase = "lobby" => IsOpen(players[u]) \/ players[u] \in slipped

(***************************************************************************)
(* The durable Session.                                                    *)
(***************************************************************************)
\* A live Session has no cause; one this instance plays, or is about to, is
\* committed with the roster that plays it, and did not expire as a lobby.
Committed(roster) == db.status # Lobby /\ db.cause # "LOBBY_EXPIRED" /\ roster = db.roster

DurableIsCommitted ==
  /\ db.status \in LiveStatus => db.cause = NoCause
  /\ LaneAt("completing") => Committed(lane.roster)
  /\ phase \in {"running", "finishing"} => Committed(participants)
  /\ offered # NoOffer => db.status # Lobby

\* What is told of an end is what the database says.
EndsAreDurable ==
  /\ LaneAt("telling") => db.status \in TerminalStatus
  /\ ToldEndingsAreDurable

(***************************************************************************)
(* What the game is told.                                                  *)
(***************************************************************************)
\* Of one user, at most a disconnection followed by a rejoin.
InOrder(first, later) ==
  first.user = later.user /\ first.user \notin stale
    => first.kind = "disconnected" /\ later.kind = "rejoin"

Tidy(ops) == \A i, j \in DOMAIN ops : i < j => InOrder(ops[i], ops[j])

\* Told or not yet, op waits in the boundary being executed or behind it.
Pending(op) == Waits(lane.work, op) \/ Waits(timeline, op)

OperationsAreTidy ==
  /\ Tidy(lane.work)
  /\ Tidy(timeline)
  /\ \A i \in DOMAIN lane.work, j \in DOMAIN timeline : InOrder(lane.work[i], timeline[j])
  /\ \A i \in DOMAIN lane.work : lane.work[i].user \in participants
  /\ \A i \in DOMAIN timeline : timeline[i].user \in participants

\* Who plays as far as the game knows, and as far as the controller does.
PlayersAreTold ==
  /\ \A u \in participants \ stale :
       /\ Pending(DisconnectedOp(u)) => presence[u] = "disconnected"
       /\ Pending(RejoinOp(u)) => presence[u] = "disconnected" /\ u \in rejoins
       /\ u \in gone <=> presence[u] = "disconnected" /\ ~Pending(DisconnectedOp(u))
  /\ gone \ stale \subseteq participants

\* Before the game runs here nothing waits and nobody is gone, but for a
\* recovered game whose checkpoint was loaded.
NothingIsToldYet ==
  phase \in {"lobby", "starting"} =>
    /\ timeline = <<>>
    /\ rejoins = {}
    /\ LaneAt("completing") \/ gone = {}

Consistent(told, disconnected, roster) ==
  told \ stale = disconnected \ stale /\ told \ stale \subseteq roster

CheckpointsAreConsistent ==
  /\ Consistent(db.gone, db.disconnected, db.roster)
  /\ offered # NoOffer => Consistent(offered.gone, offered.disconnected, db.roster)
  /\ LaneAt("completing") /\ phase = "starting" =>
       Consistent(gone, lane.resumed, lane.roster)

GameIsTold ==
  /\ phase = "running" => OperationsAreTidy /\ PlayersAreTold
  /\ NothingIsToldYet
  /\ CheckpointsAreConsistent

(***************************************************************************)
(* Presence.                                                               *)
(***************************************************************************)
\* A user counts as attached exactly through an open connection, but for an end
\* that came too late and for a rejoin asked while they played.
TransportIsTold(u) ==
  /\ presence[u] = "attached" =>
       /\ IsOpen(players[u]) \/ players[u] \in slipped
       /\ players[u] # NoConn => conn[players[u]].at # "closing"
  /\ u \notin stale /\ IsOpen(players[u]) /\ conn[players[u]].at # "closing"
       => presence[u] = "attached"

AttachedIsConnected ==
  phase = "running" => \A u \in participants : TransportIsTold(u)

(***************************************************************************)
(* Abandonment.                                                            *)
(***************************************************************************)
AbandonedIsTold ==
  lane.cause = "ALL_PLAYERS_LEFT" =>
    db.status # Lobby /\ db.roster \ stale \subseteq gone

\* All the layers.
LiveInv ==
  /\ TypeOK /\ UsersConnect
  /\ LaneInv
  /\ ConnectionsAreOwned
  /\ LobbyIsConnected
  /\ DurableIsCommitted
  /\ EndsAreDurable
  /\ GameIsTold
  /\ AttachedIsConnected
  /\ AbandonedIsTold

(***************************************************************************)
(* What the boundary takes.                                                *)
(***************************************************************************)
ExpiredOps(expired) == [i \in 1..Cardinality(expired) |-> DisconnectedOp(SetToSeq(expired)[i])]

\* SetToSeq lists a finite set.
LEMMA SetIsListed ==
  ASSUME NEW S, IsFiniteSet(S)
  PROVE  /\ Cardinality(S) \in Nat
         /\ SetToSeq(S) \in [1..Cardinality(S) -> S]
         /\ \A i, j \in 1..Cardinality(S) : SetToSeq(S)[i] = SetToSeq(S)[j] => i = j
         /\ \A u \in S : \E i \in 1..Cardinality(S) : SetToSeq(S)[i] = u
  <1>1. Cardinality(S) \in Nat /\ ExistsBijection(1..Cardinality(S), S)
    BY FS_CardinalityType
  <1>2. PICK f \in Bijection(1..Cardinality(S), S) : TRUE
    BY <1>1 DEF ExistsBijection
  <1>3. f \in [1..Cardinality(S) -> S] /\ IsInjective(f)
    BY <1>2 DEF Bijection, Injection
  <1>4. SetToSeq(S) \in [1..Cardinality(S) -> S] /\ IsInjective(SetToSeq(S))
    BY <1>3 DEF SetToSeq
  <1>5. SetToSeq(S) \in Surjection(1..Cardinality(S), S)
    <2>1. IsFiniteSet(1..Cardinality(S)) /\ Cardinality(1..Cardinality(S)) = Cardinality(S)
      BY <1>1, FS_Interval
    <2>2. SetToSeq(S) \in Injection(1..Cardinality(S), S)
      BY <1>4 DEF Injection
    <2> QED BY <2>1, <2>2, FS_Injection
  <1> QED BY <1>1, <1>4, <1>5 DEF Surjection, IsInjective

\* The disconnections of the users in expired, each once.
LEMMA ExpiredAreListed ==
  ASSUME NEW expired \in SUBSET Users
  PROVE  /\ Cardinality(expired) \in Nat
         /\ ExpiredOps(expired) \in Timeline
         /\ Len(ExpiredOps(expired)) = Cardinality(expired)
         /\ \A i \in 1..Cardinality(expired) :
              ExpiredOps(expired)[i].kind = "disconnected" /\ ExpiredOps(expired)[i].user \in expired
         /\ \A i, j \in 1..Cardinality(expired) :
              ExpiredOps(expired)[i].user = ExpiredOps(expired)[j].user => i = j
         /\ \A u \in expired : \E i \in 1..Cardinality(expired) :
              ExpiredOps(expired)[i] = DisconnectedOp(u)
  <1>1. IsFiniteSet(expired)
    BY FS_Subset, LiveSessionAssumption DEF LiveSessionAssumption
  <1> DEFINE list == SetToSeq(expired)
             n == Cardinality(expired)
  <1>2. /\ n \in Nat
        /\ list \in [1..n -> expired]
        /\ \A i, j \in 1..n : list[i] = list[j] => i = j
        /\ \A u \in expired : \E i \in 1..n : list[i] = u
    BY <1>1, SetIsListed
  <1>3. ExpiredOps(expired) = [i \in 1..n |-> [kind |-> "disconnected", user |-> list[i]]]
    BY DEF ExpiredOps, DisconnectedOp
  <1> HIDE DEF list, n
  <1>4. ExpiredOps(expired) \in [1..n -> Operation]
    BY <1>2, <1>3 DEF Operation
  <1>5. ExpiredOps(expired) \in Timeline
    BY <1>2, <1>4, SeqDef DEF Timeline
  <1>6. Len(ExpiredOps(expired)) = n
    BY <1>2, <1>4, <1>5, LenProperties DEF Timeline
  <1>7. \A i \in 1..n : ExpiredOps(expired)[i].kind = "disconnected" /\ ExpiredOps(expired)[i].user = list[i]
    BY <1>2, <1>3
  <1>8. \A u \in expired : \E i \in 1..n : ExpiredOps(expired)[i] = DisconnectedOp(u)
    BY <1>2, <1>3 DEF DisconnectedOp
  <1> QED BY <1>2, <1>5, <1>6, <1>7, <1>8 DEF n

\* A boundary takes the oldest operations, its own disconnections last.
LEMMA BoundaryTaken ==
  ASSUME TypeOK, NEW expired \in SUBSET Users, TakeBoundary(expired)
  PROVE  \E accepted \in Timeline, taken \in Nat :
           /\ accepted = timeline \o ExpiredOps(expired)
           /\ taken <= Len(accepted)
           /\ SubSeq(accepted, 1, taken) \in Timeline
           /\ SubSeq(accepted, taken + 1, Len(accepted)) \in Timeline
           /\ timeline' = SubSeq(accepted, taken + 1, Len(accepted))
           /\ \/ lane' = [IdleLane EXCEPT !.at = "executing", !.work = SubSeq(accepted, 1, taken)]
              \/ accepted = <<>> /\ Abandoned /\ lane' = [IdleLane EXCEPT !.at = "deciding"]
  <1> DEFINE accepted == timeline \o ExpiredOps(expired)
             taken == IF Len(accepted) < BoundaryOperations THEN Len(accepted) ELSE BoundaryOperations
  <1>1. ExpiredOps(expired) \in Timeline /\ timeline \in Timeline
    BY ExpiredAreListed DEF TypeOK
  <1>2. accepted \in Timeline /\ Len(accepted) \in Nat
    BY <1>1, ConcatProperties, LenProperties DEF Timeline
  <1>3. taken \in Nat /\ taken <= Len(accepted)
    BY <1>2, LiveSessionAssumption DEF LiveSessionAssumption
  <1>4. /\ timeline' = SubSeq(accepted, taken + 1, Len(accepted))
        /\ \/ lane' = [IdleLane EXCEPT !.at = "executing", !.work = SubSeq(accepted, 1, taken)]
           \/ accepted = <<>> /\ Abandoned /\ lane' = [IdleLane EXCEPT !.at = "deciding"]
    BY DEF TakeBoundary, ExpiredOps
  <1> HIDE DEF accepted, taken
  <1>5. \A i \in 1..Len(accepted) : accepted[i] \in Operation
    BY <1>2, ElementOfSeq DEF Timeline
  <1>6. SubSeq(accepted, 1, taken) \in Timeline
    BY <1>2, <1>3, <1>5, SubSeqProperties DEF Timeline
  <1>7. SubSeq(accepted, taken + 1, Len(accepted)) \in Timeline
    <2>1. taken + 1 \in Int /\ Len(accepted) \in Int
      BY <1>2, <1>3
    <2>2. \A i \in taken + 1 .. Len(accepted) : accepted[i] \in Operation
      BY <1>2, <1>3, <1>5
    <2> QED BY <2>1, <2>2, SubSeqProperties DEF Timeline
  <1>8. accepted = timeline \o ExpiredOps(expired)
    BY DEF accepted
  <1> QED BY <1>2, <1>3, <1>4, <1>6, <1>7, <1>8

\* Every cause leads to a terminal state.
LEMMA EndingIsTerminal ==
  \A cause \in EndCause \cup {NoCause} :
    EndingStatus(cause) \in TerminalStatus /\ EndingStatus(cause) \in Status
  BY DEF EndCause, EndingStatus, TerminalStatus, Status, LiveStatus, Finished, Cancelled,
         Expired, Aborted, Lobby, Running

(***************************************************************************)
(* Types.                                                                  *)
(***************************************************************************)
ConnType == conn \in [Conns -> [user: Users \cup {NoUser}, at: OpenAt \cup AttachAt \cup ClosedAt]]
DbType   == db \in [status: Status, cause: EndCause \cup {NoCause}, roster: SUBSET Users,
                    gone: SUBSET Users, disconnected: SUBSET Users]
TypeInv  == TypeOK /\ UsersConnect

\* An idle lane is a lane that holds nothing.
LEMMA IdleLaneType ==
  /\ IdleLane \in Lane
  /\ IdleLane.at = "idle" /\ IdleLane.for = NoConn /\ IdleLane.cause = NoCause
  /\ IdleLane.work = <<>> /\ IdleLane.resumed = {}
  BY EmptySeq DEF IdleLane, Lane, Timeline, NoConn, NoCause

\* Moving the lane on, or ending with a cause, leaves a lane.
LEMMA LaneMoves ==
  ASSUME NEW from \in Lane
  PROVE  /\ \A at \in {"limits", "committing", "loading", "cancelling", "executing",
                        "committed", "deciding"} :
              [from EXCEPT !.at = at] \in Lane
         /\ \A cause \in EndCause :
              [from EXCEPT !.at = "ending", !.cause = cause] \in Lane
  BY DEF Lane

\* What moving one connection leaves of each.
LEMMA MoveToMoves ==
  ASSUME ConnType, NEW c \in Conns, NEW at, MoveTo(c, at)
  PROVE  \A d \in Conns : /\ conn'[d].user = conn[d].user
                          /\ conn'[d].at = IF d = c THEN at ELSE conn[d].at
  BY DEF ConnType, MoveTo

\* What admitting one connection leaves of each: the one it replaces ends.
LEMMA MoveReplacingMoves ==
  ASSUME ConnType, NEW c \in Conns, NEW at, NEW older, MoveReplacing(c, at, older)
  PROVE  \A d \in Conns :
           /\ conn'[d].user = conn[d].user
           /\ d = c => conn'[d].at = at
           /\ d # c /\ d = older /\ conn[d].at \in {"open", "leaving"} => conn'[d].at = "replaced"
           /\ d # c /\ d = older /\ conn[d].at \in {"closing", "closingFrozen"} => conn'[d].at = "closed"
           /\ d # c /\ (d # older \/ conn[d].at \notin OpenAt) => conn'[d].at = conn[d].at
  BY DEF ConnType, MoveReplacing, IsOpen, OpenAt, NoConn, Conns

\* What the end leaves of each connection.
LEMMA EndMoves ==
  ASSUME ConnType, NEW at, NEW answered, End(at, answered)
  PROVE  \A d \in Conns :
           /\ conn'[d].user = conn[d].user
           /\ conn'[d].at = IF IsCurrent(d) /\ conn[d].at \in OpenAt THEN at
                            ELSE IF conn[d].at = "rejoining" \/ d \in answered THEN "closed"
                            ELSE conn[d].at
  BY DEF ConnType, End, RejoinsAbandoned, IsOpen, NoConn, Conns

\* What a crash leaves of each connection.
LEMMA LostConnections ==
  ASSUME ConnType, LoseConnections
  PROVE  \A d \in Conns :
           /\ conn'[d].user = conn[d].user
           /\ conn'[d].at = IF conn[d].at \in OpenAt \cup AttachAt \cup {"replaced"} THEN "closed"
                            ELSE conn[d].at
  BY DEF ConnType, LoseConnections

\* What completing a start leaves of each connection.
LEMMA CompleteStartMoves ==
  ASSUME TypeInv, CompleteStart
  PROVE  \A d \in Conns :
           /\ conn'[d].user = conn[d].user
           /\ conn'[d].at \in {conn[d].at, "closed", "recovered"}
           /\ conn'[d].at # conn[d].at =>
                \/ d = lane.for
                \/ conn[d].at \in OpenAt /\ IsCurrent(d)
  <1> DEFINE dropped == {u \in Users : IsOpen(players[u]) /\ ~(u \in lane.roster \ lane.resumed)}
  <1>1. \/ conn' = [c \in Conns |->
               IF \E u \in dropped : players[u] = c THEN [conn[c] EXCEPT !.at = "closed"]
               ELSE IF c = lane.for THEN [conn[c] EXCEPT !.at = "recovered"] ELSE conn[c]]
        \/ conn' = [c \in Conns |-> IF c = lane.for THEN [conn[c] EXCEPT !.at = "recovered"] ELSE conn[c]]
    BY DEF CompleteStart
  <1>2. \A d \in Conns : (\E u \in dropped : players[u] = d) => conn[d].at \in OpenAt /\ IsCurrent(d)
    BY DEF IsOpen, IsCurrent
  <1> HIDE DEF dropped
  <1> QED BY <1>1, <1>2 DEF TypeInv, TypeOK

\* What cancelling a start leaves of each connection.
LEMMA CancelStartMoves ==
  ASSUME TypeInv, CancelStart
  PROVE  \A d \in Conns :
           /\ conn'[d].user = conn[d].user
           /\ conn'[d].at = IF d = lane.for THEN lane.answer ELSE conn[d].at
  BY DEF TypeInv, TypeOK, CancelStart

\* What telling the end leaves of each connection.
LEMMA TellEndMoves ==
  ASSUME TypeInv, TellEnd
  PROVE  \A d \in Conns :
           /\ conn'[d].user = conn[d].user
           /\ conn'[d].at = IF phase # "ended" /\ IsCurrent(d) /\ conn[d].at \in OpenAt THEN "told"
                            ELSE IF (phase # "ended" /\ conn[d].at = "rejoining") \/ d = lane.for THEN "closed"
                            ELSE conn[d].at
  <1>1. CASE phase # "ended"
    BY <1>1, EndMoves DEF TypeInv, TypeOK, ConnType, TellEnd
  <1>2. CASE phase = "ended"
    BY <1>2 DEF TypeInv, TypeOK, TellEnd
  <1> QED BY <1>1, <1>2

\* What committing a boundary leaves of each connection.
LEMMA CommitBoundaryMoves ==
  ASSUME TypeInv, NEW executed, NEW accepted, NEW finished,
         CommitBoundary(executed, accepted, finished)
  PROVE  \A d \in Conns :
           /\ conn'[d].user = conn[d].user
           /\ conn'[d].at # conn[d].at =>
                conn[d].at = "rejoining" /\ conn'[d].at \in {"accepted", "closed"}
  <1> DEFINE decided == {u \in Users : Waits(SubSeq(lane.work, 1, executed), RejoinOp(u))}
  <1>1. \/ UNCHANGED conn
        \/ conn' = [c \in Conns |->
               IF conn[c].at = "rejoining" /\ conn[c].user \in decided
               THEN [conn[c] EXCEPT !.at = IF conn[c].user \in accepted THEN "accepted" ELSE "closed"]
               ELSE conn[c]]
    BY DEF CommitBoundary, live
  <1> HIDE DEF decided
  <1> QED BY <1>1 DEF TypeInv, TypeOK

\* A failed end leaves the controller as it was, or ends it.
LEMMA EndFailedEnds ==
  ASSUME EndFailed
  PROVE  \/ UNCHANGED <<live, conn>>
         \/ phase = "running" /\ LaneIdle /\ End("closed", {})
  BY DEF EndFailed

\* A Session that ended is a Session.
LEMMA EndedForType ==
  ASSUME DbType, NEW cause \in EndCause \cup {NoCause}
  PROVE  EndedFor(cause) \in [status: Status, cause: EndCause \cup {NoCause}, roster: SUBSET Users,
                              gone: SUBSET Users, disconnected: SUBSET Users]
  BY EndingIsTerminal DEF DbType, EndedFor

\* A connection keeps its user, and was attempted once it was.
LEMMA UsersStayConnected ==
  ASSUME TypeInv,
         \A d \in Conns : /\ conn'[d].user = conn[d].user
                          /\ conn'[d].at = "unused" <=> conn[d].at = "unused",
         lane'.for \in {lane.for, NoConn}
  PROVE  UsersConnect'
  <1>1. lane.for \in Conns \cup {NoConn}
    BY DEF TypeInv, TypeOK, Lane
  <1>2. lane'.for # NoConn => conn'[lane'.for].at # "unused"
    BY <1>1 DEF TypeInv, UsersConnect
  <1>3. \A c \in Conns : conn'[c].at # "unused" => conn'[c].user \in Users
    BY DEF TypeInv, UsersConnect
  <1> QED BY <1>2, <1>3 DEF UsersConnect

\* Every step keeps the types.
LEMMA TypeStep == TypeInv /\ [Next]_vars => TypeInv'
  <1> SUFFICES ASSUME TypeInv, [Next]_vars PROVE TypeInv'
    OBVIOUS
  <1>1. ASSUME NEW c \in Conns, NEW u \in Users, Connect(c, u) PROVE TypeInv'
    <2>1. ConnType'
      BY <1>1 DEF TypeInv, TypeOK, ConnType, OpenAt, AttachAt, ClosedAt,
          Connect, PlaysHere, live, bounds, durable, history
    <2>2. UsersConnect'
      BY <1>1 DEF TypeInv, TypeOK, UsersConnect, ConnType, NoConn, Conns,
          Lane, Connect, PlaysHere, live, bounds, durable, history
    <2> QED BY <1>1, <2>1, <2>2
          DEF TypeInv, TypeOK, ConnType, DbType, Connect, durable, live,
          bounds, history
  <1>2. ASSUME NEW c \in Conns, CheckEligibility(c) PROVE TypeInv'
    <2>1. ConnType'
      BY <1>2 DEF TypeInv, TypeOK, ConnType, OpenAt, AttachAt, ClosedAt,
          CheckEligibility, MoveTo, live, bounds, durable, history
    <2>2. UsersConnect'
      <3>1. \A d \in Conns : /\ conn'[d].user = conn[d].user
                             /\ conn'[d].at = "unused" <=> conn[d].at = "unused"
        BY <1>2, MoveToMoves
         DEF TypeInv, TypeOK, ConnType,
            UsersConnect, Lane, OpenAt, AttachAt, NoConn, Conns,
            CheckEligibility, live
      <3>2. lane'.for \in {lane.for, NoConn}
        BY <1>2, IdleLaneType DEF TypeInv, TypeOK, Lane, CheckEligibility
      <3> QED BY <3>1, <3>2, UsersStayConnected
    <2> QED BY <1>2, <2>1, <2>2
          DEF TypeInv, TypeOK, ConnType, DbType, CheckEligibility, durable,
          live, bounds, history
  <1>3. ASSUME NEW c \in Conns, JoinLobby(c) PROVE TypeInv'
    <2>1. ConnType'
      BY <1>3 DEF TypeInv, TypeOK, ConnType, OpenAt, AttachAt, ClosedAt,
          JoinLobby, MoveReplacing, MoveTo, IsOpen, live, bounds, durable,
          history
    <2>2. players' \in [Users -> Conns \cup {NoConn}]
      BY <1>3 DEF TypeInv, TypeOK, NoConn, Conns, JoinLobby, MoveReplacing,
          MoveTo, IsOpen, live, bounds, durable, history
    <2>3. (lobby \cup participants \cup rejoins \cup gone \cup stale)' \subseteq Users
      BY <1>3 DEF TypeInv, TypeOK, UsersConnect, AttachAt, JoinLobby,
          MoveReplacing, MoveTo, IsOpen, live, bounds, durable, history
    <2>4. UsersConnect'
      <3>1. \A d \in Conns : /\ conn'[d].user = conn[d].user
                             /\ conn'[d].at = "unused" <=> conn[d].at = "unused"
        BY <1>3, MoveToMoves, MoveReplacingMoves
         DEF TypeInv, TypeOK,
            ConnType, UsersConnect, Lane, OpenAt, AttachAt, NoConn, Conns,
            JoinLobby, live
      <3>2. lane'.for \in {lane.for, NoConn}
        BY <1>3, IdleLaneType DEF TypeInv, TypeOK, Lane, JoinLobby
      <3> QED BY <3>1, <3>2, UsersStayConnected
    <2> QED BY <1>3, <2>1, <2>2, <2>3, <2>4
          DEF TypeInv, TypeOK, ConnType, DbType, JoinLobby, durable, live,
          bounds, history
  <1>4. ASSUME NEW c \in Conns, RecoveryNotNeeded(c) PROVE TypeInv'
    <2>1. ConnType'
      BY <1>4 DEF TypeInv, TypeOK, ConnType, OpenAt, AttachAt, ClosedAt,
          RecoveryNotNeeded, MoveTo, live, bounds, durable, history
    <2>2. UsersConnect'
      <3>1. \A d \in Conns : /\ conn'[d].user = conn[d].user
                             /\ conn'[d].at = "unused" <=> conn[d].at = "unused"
        BY <1>4, MoveToMoves
         DEF TypeInv, TypeOK, ConnType,
            UsersConnect, Lane, OpenAt, AttachAt, NoConn, Conns,
            RecoveryNotNeeded, live
      <3>2. lane'.for \in {lane.for, NoConn}
        BY <1>4, IdleLaneType DEF TypeInv, TypeOK, Lane, RecoveryNotNeeded
      <3> QED BY <3>1, <3>2, UsersStayConnected
    <2> QED BY <1>4, <2>1, <2>2
          DEF TypeInv, TypeOK, ConnType, DbType, RecoveryNotNeeded, durable,
          live, bounds, history
  <1>5. ASSUME NEW c \in Conns, RequestRecovery(c) PROVE TypeInv'
    <2>1. ConnType'
      BY <1>5 DEF TypeInv, TypeOK, ConnType, OpenAt, AttachAt, ClosedAt,
          RequestRecovery, LaneAt, Freeze, IdleLane, MoveTo, live, bounds,
          durable, history
    <2>2. lane' \in Lane
      <3>1. lane' \in {lane, [IdleLane EXCEPT !.at = "limits", !.for = c]}
        BY <1>5 DEF RequestRecovery
      <3>2. [IdleLane EXCEPT !.at = "limits", !.for = c] \in Lane
        BY IdleLaneType DEF Lane
      <3> QED BY <3>1, <3>2 DEF TypeInv, TypeOK
    <2>3. phase' \in Phase
      BY <1>5 DEF TypeInv, TypeOK, Phase, RequestRecovery, LaneAt, Freeze,
          IdleLane, MoveTo, live, bounds, durable, history
    <2>4. (lobby \cup participants \cup rejoins \cup gone \cup stale)' \subseteq Users
      BY <1>5 DEF TypeInv, TypeOK, RequestRecovery, LaneAt, Freeze, IdleLane,
          MoveTo, live, bounds, durable, history
    <2>5. UsersConnect'
      <3>1. CASE phase = "lobby" /\ UNCHANGED conn /\ lane' = [IdleLane EXCEPT !.at = "limits", !.for = c]
        <4>1. lane'.for = c
          BY <3>1, IdleLaneType DEF Lane
        <4> QED BY <1>5, <3>1, <4>1 DEF RequestRecovery, TypeInv, UsersConnect
      <3>2. CASE MoveTo(c, "closed") /\ UNCHANGED lane
        <4>1. \A d \in Conns : /\ conn'[d].user = conn[d].user
                               /\ conn'[d].at = "unused" <=> conn[d].at = "unused"
          BY <1>5, <3>2, MoveToMoves DEF TypeInv, TypeOK, ConnType, RequestRecovery
        <4> QED BY <3>2, <4>1, UsersStayConnected
      <3> QED BY <1>5, <3>1, <3>2 DEF RequestRecovery, Freeze, live
    <2> QED BY <1>5, <2>1, <2>2, <2>3, <2>4, <2>5
          DEF TypeInv, TypeOK, ConnType, DbType, RequestRecovery, Freeze,
          durable, live, bounds, history
  <1>6. ASSUME NEW c \in Conns, Reattach(c) PROVE TypeInv'
    <2>1. ConnType'
      BY <1>6 DEF TypeInv, TypeOK, ConnType, OpenAt, AttachAt, ClosedAt,
          Reattach, PlaysHere, MoveTo, MoveReplacing, IsOpen, live, bounds,
          durable, history
    <2>2. players' \in [Users -> Conns \cup {NoConn}]
      BY <1>6 DEF TypeInv, TypeOK, NoConn, Conns, Reattach, PlaysHere, MoveTo,
          MoveReplacing, IsOpen, live, bounds, durable, history
    <2>3. presence' \in [Users -> {"none", "attached", "awaiting", "disconnected"}]
      BY <1>6 DEF TypeInv, TypeOK, Reattach, PlaysHere, MoveTo, MoveReplacing,
          IsOpen, live, bounds, durable, history
    <2>4. UsersConnect'
      <3>1. \A d \in Conns : /\ conn'[d].user = conn[d].user
                             /\ conn'[d].at = "unused" <=> conn[d].at = "unused"
        BY <1>6, MoveToMoves, MoveReplacingMoves
         DEF TypeInv, TypeOK,
            ConnType, UsersConnect, Lane, OpenAt, AttachAt, NoConn, Conns,
            Reattach, live
      <3>2. lane'.for \in {lane.for, NoConn}
        BY <1>6, IdleLaneType DEF TypeInv, TypeOK, Lane, Reattach
      <3> QED BY <3>1, <3>2, UsersStayConnected
    <2> QED BY <1>6, <2>1, <2>2, <2>3, <2>4
          DEF TypeInv, TypeOK, ConnType, DbType, Reattach, durable, live,
          bounds, history
  <1>7. ASSUME NEW c \in Conns, AskRejoin(c) PROVE TypeInv'
    <2>1. ConnType'
      BY <1>7 DEF TypeInv, TypeOK, ConnType, OpenAt, AttachAt, ClosedAt,
          AskRejoin, PlaysHere, MoveTo, RejoinOp, live, bounds, durable,
          history
    <2>2. timeline' \in Timeline
      <3>1. conn[c].user \in Users
        BY <1>7 DEF TypeInv, UsersConnect, AskRejoin
      <3>2. Append(timeline, RejoinOp(conn[c].user)) \in Timeline
        BY <3>1, AppendProperties DEF TypeInv, TypeOK, Timeline, Operation, RejoinOp
      <3> QED BY <1>7, <3>2 DEF AskRejoin, TypeInv, TypeOK, live
    <2>3. (lobby \cup participants \cup rejoins \cup gone \cup stale)' \subseteq Users
      BY <1>7 DEF TypeInv, TypeOK, UsersConnect, AskRejoin, PlaysHere, MoveTo,
          RejoinOp, live, bounds, durable, history
    <2>4. UsersConnect'
      <3>1. \A d \in Conns : /\ conn'[d].user = conn[d].user
                             /\ conn'[d].at = "unused" <=> conn[d].at = "unused"
        BY <1>7, MoveToMoves
         DEF TypeInv, TypeOK, ConnType,
            UsersConnect, Lane, OpenAt, AttachAt, NoConn, Conns, AskRejoin,
            live
      <3>2. lane'.for \in {lane.for, NoConn}
        BY <1>7, IdleLaneType DEF TypeInv, TypeOK, Lane, AskRejoin
      <3> QED BY <3>1, <3>2, UsersStayConnected
    <2> QED BY <1>7, <2>1, <2>2, <2>3, <2>4
          DEF TypeInv, TypeOK, ConnType, DbType, AskRejoin, durable, live,
          bounds, history
  <1>8. ASSUME NEW c \in Conns, GiveUpRejoin(c) PROVE TypeInv'
    <2>1. ConnType'
      BY <1>8 DEF TypeInv, TypeOK, ConnType, OpenAt, AttachAt, ClosedAt,
          GiveUpRejoin, MoveTo, live, bounds, durable, history
    <2>2. UsersConnect'
      <3>1. \A d \in Conns : /\ conn'[d].user = conn[d].user
                             /\ conn'[d].at = "unused" <=> conn[d].at = "unused"
        BY <1>8, MoveToMoves
         DEF TypeInv, TypeOK, ConnType,
            UsersConnect, Lane, OpenAt, AttachAt, NoConn, Conns, GiveUpRejoin,
            live
      <3>2. lane'.for \in {lane.for, NoConn}
        BY <1>8, IdleLaneType DEF TypeInv, TypeOK, Lane, GiveUpRejoin
      <3> QED BY <3>1, <3>2, UsersStayConnected
    <2> QED BY <1>8, <2>1, <2>2
          DEF TypeInv, TypeOK, ConnType, DbType, GiveUpRejoin, durable, live,
          bounds, history
  <1>9. ASSUME NEW c \in Conns, Leave(c) PROVE TypeInv'
    <2>1. ConnType'
      BY <1>9 DEF TypeInv, TypeOK, ConnType, OpenAt, AttachAt, ClosedAt,
          Leave, MoveTo, live, bounds, durable, history
    <2>2. UsersConnect'
      <3>1. \A d \in Conns : /\ conn'[d].user = conn[d].user
                             /\ conn'[d].at = "unused" <=> conn[d].at = "unused"
        BY <1>9, MoveToMoves
         DEF TypeInv, TypeOK, ConnType,
            UsersConnect, Lane, OpenAt, AttachAt, NoConn, Conns, Leave, live
      <3>2. lane'.for \in {lane.for, NoConn}
        BY <1>9, IdleLaneType DEF TypeInv, TypeOK, Lane, Leave
      <3> QED BY <3>1, <3>2, UsersStayConnected
    <2> QED BY <1>9, <2>1, <2>2
          DEF TypeInv, TypeOK, ConnType, DbType, Leave, durable, live, bounds,
          history
  <1>10. ASSUME NEW c \in Conns, LeaveSettled(c) PROVE TypeInv'
    <2>1. ConnType'
      BY <1>10 DEF TypeInv, TypeOK, ConnType, OpenAt, AttachAt, ClosedAt,
          LeaveSettled, PlaysHere, IsCurrent, MoveTo, IsOpen, LeaveLobby,
          DisconnectedOp, live, bounds, durable, history
    <2>2. players' \in [Users -> Conns \cup {NoConn}]
      BY <1>10 DEF TypeInv, TypeOK, NoConn, Conns, LeaveSettled, PlaysHere,
          IsCurrent, MoveTo, IsOpen, LeaveLobby, DisconnectedOp, live, bounds,
          durable, history
    <2>3. presence' \in [Users -> {"none", "attached", "awaiting", "disconnected"}]
      BY <1>10 DEF TypeInv, TypeOK, LeaveSettled, PlaysHere, IsCurrent,
          MoveTo, IsOpen, LeaveLobby, DisconnectedOp, live, bounds, durable,
          history
    <2>4. timeline' \in Timeline
      <3>1. conn[c].user \in Users
        BY <1>10 DEF TypeInv, UsersConnect, LeaveSettled
      <3>2. Append(timeline, DisconnectedOp(conn[c].user)) \in Timeline
        BY <3>1, AppendProperties DEF TypeInv, TypeOK, Timeline, Operation, DisconnectedOp
      <3> QED BY <1>10, <3>2 DEF LeaveSettled, TypeInv, TypeOK, live, LeaveLobby
    <2>5. (lobby \cup participants \cup rejoins \cup gone \cup stale)' \subseteq Users
      BY <1>10 DEF TypeInv, TypeOK, LeaveSettled, PlaysHere, IsCurrent,
          MoveTo, IsOpen, LeaveLobby, DisconnectedOp, live, bounds, durable,
          history
    <2>6. UsersConnect'
      <3>1. \A d \in Conns : /\ conn'[d].user = conn[d].user
                             /\ conn'[d].at = "unused" <=> conn[d].at = "unused"
        BY <1>10, MoveToMoves
         DEF TypeInv, TypeOK, ConnType,
            UsersConnect, Lane, OpenAt, AttachAt, NoConn, Conns, LeaveSettled,
            IsOpen, live
      <3>2. lane'.for \in {lane.for, NoConn}
        BY <1>10, IdleLaneType DEF TypeInv, TypeOK, Lane, LeaveSettled
      <3> QED BY <3>1, <3>2, UsersStayConnected
    <2> QED BY <1>10, <2>1, <2>2, <2>3, <2>4, <2>5, <2>6
          DEF TypeInv, TypeOK, ConnType, DbType, LeaveSettled, LeaveLobby,
          durable, live, bounds, history
  <1>11. ASSUME NEW c \in Conns, Disconnect(c) PROVE TypeInv'
    <2>1. ConnType'
      BY <1>11 DEF TypeInv, TypeOK, ConnType, OpenAt, AttachAt, ClosedAt,
          Disconnect, Detaches, PlaysHere, IsCurrent, MoveTo, IsOpen,
          LeaveLobby, live, bounds, durable, history
    <2>2. players' \in [Users -> Conns \cup {NoConn}]
      BY <1>11 DEF TypeInv, TypeOK, NoConn, Conns, Disconnect, Detaches,
          PlaysHere, IsCurrent, MoveTo, IsOpen, LeaveLobby, live, bounds,
          durable, history
    <2>3. presence' \in [Users -> {"none", "attached", "awaiting", "disconnected"}]
      BY <1>11 DEF TypeInv, TypeOK, Disconnect, Detaches, PlaysHere,
          IsCurrent, MoveTo, IsOpen, LeaveLobby, live, bounds, durable,
          history
    <2>4. (lobby \cup participants \cup rejoins \cup gone \cup stale)' \subseteq Users
      BY <1>11 DEF TypeInv, TypeOK, Disconnect, Detaches, PlaysHere,
          IsCurrent, MoveTo, IsOpen, LeaveLobby, live, bounds, durable,
          history
    <2>5. UsersConnect'
      <3>1. \A d \in Conns : /\ conn'[d].user = conn[d].user
                             /\ conn'[d].at = "unused" <=> conn[d].at = "unused"
        BY <1>11, MoveToMoves
         DEF TypeInv, TypeOK, ConnType,
            UsersConnect, Lane, OpenAt, AttachAt, NoConn, Conns, Disconnect,
            IsOpen, live
      <3>2. lane'.for \in {lane.for, NoConn}
        BY <1>11, IdleLaneType DEF TypeInv, TypeOK, Lane, Disconnect
      <3> QED BY <3>1, <3>2, UsersStayConnected
    <2> QED BY <1>11, <2>1, <2>2, <2>3, <2>4, <2>5
          DEF TypeInv, TypeOK, ConnType, DbType, Disconnect, LeaveLobby,
          durable, live, bounds, history
  <1>12. ASSUME NEW c \in Conns, EndConnection(c) PROVE TypeInv'
    <2>1. ConnType'
      <3>1. conn' = [conn EXCEPT ![c].at = "closed"]
        BY <1>12 DEF EndConnection, MoveTo
      <3> QED BY <1>12, <3>1 DEF TypeInv, TypeOK, ConnType, OpenAt, AttachAt, ClosedAt
    <2>2. slipped' \subseteq Conns
      BY <1>12 DEF TypeInv, TypeOK, EndConnection, MoveTo, live, bounds,
          durable, history
    <2>3. UsersConnect'
      <3>1. \A d \in Conns : /\ conn'[d].user = conn[d].user
                             /\ conn'[d].at = "unused" <=> conn[d].at = "unused"
        BY <1>12, MoveToMoves
         DEF TypeInv, TypeOK, ConnType,
            UsersConnect, Lane, OpenAt, AttachAt, NoConn, Conns,
            EndConnection, live
      <3>2. lane'.for \in {lane.for, NoConn}
        BY <1>12, IdleLaneType DEF TypeInv, TypeOK, Lane, EndConnection
      <3> QED BY <3>1, <3>2, UsersStayConnected
    <2> QED BY <1>12, <2>1, <2>2, <2>3
          DEF TypeInv, TypeOK, ConnType, DbType, EndConnection, durable, live,
          bounds, history
  <1>13. ASSUME RequestStart PROVE TypeInv'
    <2>1. lane' \in Lane
      BY <1>13, IdleLaneType DEF TypeInv, TypeOK, Lane, NoConn, NoCause,
          RequestStart, LaneAt, Freeze, IdleLane, live, bounds, durable,
          history
    <2>2. starts' \in 0..MaxStarts
      BY <1>13, LiveSessionAssumption DEF LiveSessionAssumption, TypeInv,
          TypeOK, RequestStart, LaneAt, Freeze, IdleLane, live, bounds,
          durable, history
    <2>3. phase' \in Phase
      BY <1>13 DEF TypeInv, TypeOK, Phase, RequestStart, LaneAt, Freeze,
          IdleLane, live, bounds, durable, history
    <2>4. (lobby \cup participants \cup rejoins \cup gone \cup stale)' \subseteq Users
      BY <1>13 DEF TypeInv, TypeOK, RequestStart, LaneAt, Freeze, IdleLane,
          live, bounds, durable, history
    <2>5. UsersConnect'
      <3>1. \A d \in Conns : /\ conn'[d].user = conn[d].user
                             /\ conn'[d].at = "unused" <=> conn[d].at = "unused"
        BY <1>13
         DEF TypeInv, TypeOK, ConnType, UsersConnect, Lane,
            OpenAt, AttachAt, NoConn, Conns, RequestStart, Freeze, live
      <3>2. lane'.for \in {lane.for, NoConn}
        BY <1>13, IdleLaneType DEF TypeInv, TypeOK, Lane, RequestStart
      <3> QED BY <3>1, <3>2, UsersStayConnected
    <2> QED BY <1>13, <2>1, <2>2, <2>3, <2>4, <2>5
          DEF TypeInv, TypeOK, ConnType, DbType, RequestStart, Freeze,
          durable, live, bounds, history
  <1>14. ASSUME NEW expired \in SUBSET Users, TakeBoundary(expired) PROVE TypeInv'
    <2>1. presence' \in [Users -> {"none", "attached", "awaiting", "disconnected"}]
      BY <1>14 DEF TypeInv, TypeOK, TakeBoundary, LaneAt, IdleLane, live,
          bounds, durable, history
    <2>2. timeline' \in Timeline
      BY <1>14, BoundaryTaken DEF TypeInv
    <2>3. lane' \in Lane
      <3>1. PICK work \in Timeline : lane' \in {[IdleLane EXCEPT !.at = "executing", !.work = work],
                                              [IdleLane EXCEPT !.at = "deciding"]}
        BY <1>14, BoundaryTaken DEF TypeInv
      <3>2. [IdleLane EXCEPT !.at = "executing", !.work = work] \in Lane
        BY IdleLaneType DEF Lane
      <3> QED BY <3>1, <3>2, IdleLaneType, LaneMoves
    <2>4. UsersConnect'
      <3>1. UNCHANGED conn /\ lane'.for = NoConn
        BY <1>14, BoundaryTaken DEF TypeInv, TakeBoundary, IdleLane
      <3> QED BY <3>1 DEF TypeInv, UsersConnect
    <2> QED BY <1>14, <2>1, <2>2, <2>3, <2>4
          DEF TypeInv, TypeOK, ConnType, DbType, TakeBoundary, durable, live,
          bounds, history
  <1>15. ASSUME CheckStart PROVE TypeInv'
    <2>1. lane' \in Lane
      BY <1>15 DEF TypeInv, TypeOK, Lane, CheckStart, LaneAt, LaneTo, Fault,
          live, bounds, durable, history
    <2>2. faults' \in 0..MaxFaults
      BY <1>15, LiveSessionAssumption DEF LiveSessionAssumption, TypeInv,
          TypeOK, Fault, CheckStart, LaneAt, LaneTo, live, bounds, durable,
          history
    <2>3. UsersConnect'
      <3>1. \A d \in Conns : /\ conn'[d].user = conn[d].user
                             /\ conn'[d].at = "unused" <=> conn[d].at = "unused"
        BY <1>15
         DEF TypeInv, TypeOK, ConnType, UsersConnect, Lane,
            OpenAt, AttachAt, NoConn, Conns, CheckStart, live
      <3>2. lane'.for \in {lane.for, NoConn}
        BY <1>15, IdleLaneType DEF TypeInv, TypeOK, Lane, CheckStart, LaneTo,
            Fault
      <3> QED BY <3>1, <3>2, UsersStayConnected
    <2> QED BY <1>15, <2>1, <2>2, <2>3
          DEF TypeInv, TypeOK, ConnType, DbType, CheckStart, Fault, durable,
          live, bounds, history
  <1>16. ASSUME RunScript PROVE TypeInv'
    <2>1. lane' \in Lane
      <3>1. lane' \in {[lane EXCEPT !.at = "committing"], [lane EXCEPT !.at = "cancelling"],
                      [lane EXCEPT !.at = "ending", !.cause = "GAME_START_FAILURE"]}
        BY <1>16 DEF RunScript, LaneTo, LaneEnds
      <3> QED BY <3>1, LaneMoves DEF TypeInv, TypeOK, EndCause
    <2>2. faults' \in 0..MaxFaults
      BY <1>16, LiveSessionAssumption DEF LiveSessionAssumption, TypeInv,
          TypeOK, Fault, RunScript, LaneAt, LaneTo, LaneEnds, live, bounds,
          durable, history
    <2>3. UsersConnect'
      <3>1. \A d \in Conns : /\ conn'[d].user = conn[d].user
                             /\ conn'[d].at = "unused" <=> conn[d].at = "unused"
        BY <1>16
         DEF TypeInv, TypeOK, ConnType, UsersConnect, Lane,
            OpenAt, AttachAt, NoConn, Conns, RunScript, live
      <3>2. lane'.for \in {lane.for, NoConn}
        BY <1>16, IdleLaneType DEF TypeInv, TypeOK, Lane, RunScript, LaneTo,
            LaneEnds, Fault
      <3> QED BY <3>1, <3>2, UsersStayConnected
    <2> QED BY <1>16, <2>1, <2>2, <2>3
          DEF TypeInv, TypeOK, ConnType, DbType, RunScript, Fault, durable,
          live, bounds, history
  <1>17. ASSUME CommitStart PROVE TypeInv'
    <2>1. lane' \in Lane
      BY <1>17 DEF TypeInv, TypeOK, Lane, CommitStart, LaneAt, LaneTo, Fault,
          live, bounds, durable, history
    <2>2. DbType'
      BY <1>17 DEF TypeInv, TypeOK, DbType, Status, LiveStatus, Lane,
          CommitStart, LaneAt, LaneTo, Fault, live, bounds, durable, history
    <2>3. faults' \in 0..MaxFaults
      BY <1>17, LiveSessionAssumption DEF LiveSessionAssumption, TypeInv,
          TypeOK, Fault, CommitStart, LaneAt, LaneTo, live, bounds, durable,
          history
    <2>4. UsersConnect'
      <3>1. \A d \in Conns : /\ conn'[d].user = conn[d].user
                             /\ conn'[d].at = "unused" <=> conn[d].at = "unused"
        BY <1>17
         DEF TypeInv, TypeOK, ConnType, UsersConnect, Lane,
            OpenAt, AttachAt, NoConn, Conns, CommitStart, live
      <3>2. lane'.for \in {lane.for, NoConn}
        BY <1>17, IdleLaneType DEF TypeInv, TypeOK, Lane, CommitStart, LaneTo,
            Fault
      <3> QED BY <3>1, <3>2, UsersStayConnected
    <2> QED BY <1>17, <2>1, <2>2, <2>3, <2>4
          DEF TypeInv, TypeOK, ConnType, DbType, CommitStart, Fault, durable,
          live, bounds, history
  <1>18. ASSUME CheckLifetime PROVE TypeInv'
    <2>1. lane' \in Lane
      <3>1. lane' \in {[lane EXCEPT !.at = "loading"], [lane EXCEPT !.at = "cancelling"],
                      [lane EXCEPT !.at = "ending", !.cause = "MAX_LIFETIME"]}
        BY <1>18 DEF CheckLifetime, LaneTo, LaneEnds
      <3> QED BY <3>1, LaneMoves DEF TypeInv, TypeOK, EndCause
    <2>2. faults' \in 0..MaxFaults
      BY <1>18, LiveSessionAssumption DEF LiveSessionAssumption, TypeInv,
          TypeOK, Fault, CheckLifetime, LaneAt, LaneTo, LaneEnds, live,
          bounds, durable, history
    <2>3. UsersConnect'
      <3>1. \A d \in Conns : /\ conn'[d].user = conn[d].user
                             /\ conn'[d].at = "unused" <=> conn[d].at = "unused"
        BY <1>18
         DEF TypeInv, TypeOK, ConnType, UsersConnect, Lane,
            OpenAt, AttachAt, NoConn, Conns, CheckLifetime, live
      <3>2. lane'.for \in {lane.for, NoConn}
        BY <1>18, IdleLaneType DEF TypeInv, TypeOK, Lane, CheckLifetime,
            LaneTo, LaneEnds, Fault
      <3> QED BY <3>1, <3>2, UsersStayConnected
    <2> QED BY <1>18, <2>1, <2>2, <2>3
          DEF TypeInv, TypeOK, ConnType, DbType, CheckLifetime, Fault,
          durable, live, bounds, history
  <1>19. ASSUME LoadRunning PROVE TypeInv'
    <2>1. lane' \in Lane
      <3>1. CASE lane' = [lane EXCEPT !.at = "completing", !.roster = CommittedRoster,
                                      !.resumed = db.disconnected]
        <4>1. CommittedRoster \in SUBSET Users /\ db.disconnected \in SUBSET Users
          BY DEF TypeInv, TypeOK, CommittedRoster
        <4> QED BY <3>1, <4>1 DEF TypeInv, TypeOK, Lane
      <3>2. CASE lane' = [lane EXCEPT !.at = "cancelling", !.answer = "recovered"]
        BY <3>2 DEF TypeInv, TypeOK, Lane
      <3>3. CASE lane' = [lane EXCEPT !.at = "cancelling"]
        BY <3>3, LaneMoves DEF TypeInv, TypeOK
      <3> QED BY <1>19, <3>1, <3>2, <3>3 DEF LoadRunning, LaneTo
    <2>2. (lobby \cup participants \cup rejoins \cup gone \cup stale)' \subseteq Users
      BY <1>19 DEF TypeInv, TypeOK, LoadRunning, CommittedRoster, LaneAt,
          LaneTo, Fault, live, bounds, durable, history
    <2>3. faults' \in 0..MaxFaults
      BY <1>19, LiveSessionAssumption DEF LiveSessionAssumption, TypeInv,
          TypeOK, Fault, LoadRunning, CommittedRoster, LaneAt, LaneTo, live,
          bounds, durable, history
    <2>4. UsersConnect'
      <3>1. \A d \in Conns : /\ conn'[d].user = conn[d].user
                             /\ conn'[d].at = "unused" <=> conn[d].at = "unused"
        BY <1>19
         DEF TypeInv, TypeOK, ConnType, UsersConnect, Lane,
            OpenAt, AttachAt, NoConn, Conns, LoadRunning, live
      <3>2. lane'.for \in {lane.for, NoConn}
        BY <1>19, IdleLaneType DEF TypeInv, TypeOK, Lane, LoadRunning, LaneTo,
            Fault
      <3> QED BY <3>1, <3>2, UsersStayConnected
    <2> QED BY <1>19, <2>1, <2>2, <2>3, <2>4
          DEF TypeInv, TypeOK, ConnType, DbType, LoadRunning, Fault, durable,
          live, bounds, history
  <1>20. ASSUME CompleteStart PROVE TypeInv'
    <2>1. ConnType'
      BY <1>20 DEF TypeInv, TypeOK, ConnType, OpenAt, AttachAt, ClosedAt,
          CompleteStart, LaneAt, LaneIdle, IdleLane, IsOpen, live, bounds,
          durable, history
    <2>2. lane' \in Lane
      BY <1>20, IdleLaneType DEF TypeInv, TypeOK, Lane, NoConn, NoCause,
          CompleteStart, LaneAt, LaneIdle, IdleLane, IsOpen, live, bounds,
          durable, history
    <2>3. phase' \in Phase
      BY <1>20 DEF TypeInv, TypeOK, Phase, CompleteStart, LaneAt, LaneIdle,
          IdleLane, IsOpen, live, bounds, durable, history
    <2>4. (lobby \cup participants \cup rejoins \cup gone \cup stale)' \subseteq Users
      BY <1>20 DEF TypeInv, TypeOK, Lane, CompleteStart, LaneAt, LaneIdle,
          IdleLane, IsOpen, live, bounds, durable, history
    <2>5. presence' \in [Users -> {"none", "attached", "awaiting", "disconnected"}]
      BY <1>20 DEF TypeInv, TypeOK, CompleteStart, LaneAt, LaneIdle, IdleLane,
          IsOpen, live, bounds, durable, history
    <2>6. players' \in [Users -> Conns \cup {NoConn}]
      BY <1>20 DEF TypeInv, TypeOK, NoConn, Conns, CompleteStart, LaneAt,
          LaneIdle, IdleLane, IsOpen, live, bounds, durable, history
    <2>7. UsersConnect'
      <3>1. \A d \in Conns : /\ conn'[d].user = conn[d].user
                             /\ conn'[d].at = "unused" <=> conn[d].at = "unused"
        BY <1>20, CompleteStartMoves
         DEF TypeInv, TypeOK, ConnType,
            UsersConnect, Lane, OpenAt, AttachAt, NoConn, Conns,
            CompleteStart, live
      <3>2. lane'.for \in {lane.for, NoConn}
        BY <1>20, IdleLaneType DEF TypeInv, TypeOK, Lane, CompleteStart,
            LaneIdle
      <3> QED BY <3>1, <3>2, UsersStayConnected
    <2> QED BY <1>20, <2>1, <2>2, <2>3, <2>4, <2>5, <2>6, <2>7
          DEF TypeInv, TypeOK, ConnType, DbType, CompleteStart, durable, live,
          bounds, history
  <1>21. ASSUME CancelStart PROVE TypeInv'
    <2>1. ConnType'
      BY <1>21 DEF TypeInv, TypeOK, ConnType, OpenAt, AttachAt, ClosedAt,
          Lane, CancelStart, StillConnected, LaneAt, LaneIdle, IdleLane,
          IsOpen, live, bounds, durable, history
    <2>2. lane' \in Lane
      BY <1>21, IdleLaneType DEF TypeInv, TypeOK, Lane, NoConn, NoCause,
          CancelStart, StillConnected, LaneAt, LaneIdle, IdleLane, IsOpen,
          live, bounds, durable, history
    <2>3. phase' \in Phase
      BY <1>21 DEF TypeInv, TypeOK, Phase, CancelStart, StillConnected,
          LaneAt, LaneIdle, IdleLane, IsOpen, live, bounds, durable, history
    <2>4. (lobby \cup participants \cup rejoins \cup gone \cup stale)' \subseteq Users
      BY <1>21 DEF TypeInv, TypeOK, CancelStart, StillConnected, LaneAt,
          LaneIdle, IdleLane, IsOpen, live, bounds, durable, history
    <2>5. players' \in [Users -> Conns \cup {NoConn}]
      BY <1>21 DEF TypeInv, TypeOK, NoConn, Conns, CancelStart,
          StillConnected, LaneAt, LaneIdle, IdleLane, IsOpen, live, bounds,
          durable, history
    <2>6. UsersConnect'
      <3>1. \A d \in Conns : /\ conn'[d].user = conn[d].user
                             /\ conn'[d].at = "unused" <=> conn[d].at = "unused"
        BY <1>21, CancelStartMoves
         DEF TypeInv, TypeOK, ConnType,
            UsersConnect, Lane, OpenAt, AttachAt, NoConn, Conns, CancelStart,
            live
      <3>2. lane'.for \in {lane.for, NoConn}
        BY <1>21, IdleLaneType DEF TypeInv, TypeOK, Lane, CancelStart,
            LaneIdle
      <3> QED BY <3>1, <3>2, UsersStayConnected
    <2> QED BY <1>21, <2>1, <2>2, <2>3, <2>4, <2>5, <2>6
          DEF TypeInv, TypeOK, ConnType, DbType, CancelStart, durable, live,
          bounds, history
  <1>22. ASSUME NEW executed \in 0..Len(lane.work), NEW accepted \in SUBSET Users,
             NEW finished \in BOOLEAN,
             CommitBoundary(executed, accepted, finished) PROVE TypeInv'
    <2>1. ConnType'
      BY <1>22 DEF TypeInv, TypeOK, ConnType, OpenAt, AttachAt, ClosedAt,
          CommitBoundary, LaneAt, LaneIdle, IdleLane, live, bounds, durable,
          history
    <2>2. lane' \in Lane
      <3>1. lane' \in {IdleLane, [IdleLane EXCEPT !.at = "ending", !.cause = "GAME_FINISHED"],
                     [IdleLane EXCEPT !.at = "committed"]}
        BY <1>22 DEF CommitBoundary, LaneIdle
      <3> QED BY <3>1, IdleLaneType, LaneMoves DEF EndCause
    <2>3. phase' \in Phase
      BY <1>22 DEF TypeInv, TypeOK, Phase, CommitBoundary, LaneAt, LaneIdle,
          IdleLane, live, bounds, durable, history
    <2>4. (lobby \cup participants \cup rejoins \cup gone \cup stale)' \subseteq Users
      BY <1>22 DEF TypeInv, TypeOK, CommitBoundary, GoneAfter, LaneAt,
          LaneIdle, IdleLane, live, bounds, durable, history
    <2>5. presence' \in [Users -> {"none", "attached", "awaiting", "disconnected"}]
      BY <1>22 DEF TypeInv, TypeOK, CommitBoundary, LaneAt, LaneIdle,
          IdleLane, live, bounds, durable, history
    <2>6. UsersConnect'
      <3>1. \A d \in Conns : /\ conn'[d].user = conn[d].user
                             /\ conn'[d].at = "unused" <=> conn[d].at = "unused"
        BY <1>22, CommitBoundaryMoves
         DEF TypeInv, TypeOK, ConnType,
            UsersConnect, Lane, OpenAt, AttachAt, NoConn, Conns,
            CommitBoundary, live
      <3>2. lane' \in {IdleLane, [IdleLane EXCEPT !.at = "ending", !.cause = "GAME_FINISHED"],
                     [IdleLane EXCEPT !.at = "committed"]}
        BY <1>22 DEF CommitBoundary, LaneIdle
      <3>3. lane'.for \in {lane.for, NoConn}
        BY <3>2, IdleLaneType DEF Lane
      <3> QED BY <3>1, <3>3, UsersStayConnected
    <2> QED BY <1>22, <2>1, <2>2, <2>3, <2>4, <2>5, <2>6
          DEF TypeInv, TypeOK, ConnType, DbType, CommitBoundary, durable,
          live, bounds, history
  <1>23. ASSUME FailBoundary PROVE TypeInv'
    <2>1. lane' \in Lane
      <3>1. lane' \in {IdleLane,
                      [IdleLane EXCEPT !.at = "ending", !.cause = "UNRECOVERABLE_INFRA_FAILURE"],
                      [lane EXCEPT !.at = "ending", !.cause = "SCRIPT_FAILURE"]}
        BY <1>23 DEF FailBoundary, LaneEnds
      <3> QED BY <3>1, IdleLaneType, LaneMoves DEF TypeInv, TypeOK, EndCause
    <2>2. timeline' \in Timeline
      <3>1. lane.work \o timeline \in Timeline
        BY ConcatProperties DEF TypeInv, TypeOK, Lane, Timeline
      <3> QED BY <1>23, <3>1 DEF FailBoundary, Requeued, TypeInv, TypeOK
    <2>3. faults' \in 0..MaxFaults
      BY <1>23, LiveSessionAssumption DEF LiveSessionAssumption, TypeInv,
          TypeOK, Fault, FailBoundary, Requeued, LaneAt, LaneEnds, IdleLane,
          live, bounds, durable, history
    <2>4. UsersConnect'
      <3>1. \A d \in Conns : /\ conn'[d].user = conn[d].user
                             /\ conn'[d].at = "unused" <=> conn[d].at = "unused"
        BY <1>23
         DEF TypeInv, TypeOK, ConnType, UsersConnect, Lane,
            OpenAt, AttachAt, NoConn, Conns, FailBoundary, live
      <3>2. lane'.for \in {lane.for, NoConn}
        BY <1>23, IdleLaneType DEF TypeInv, TypeOK, Lane, FailBoundary,
            Requeued, LaneEnds, Fault
      <3> QED BY <3>1, <3>2, UsersStayConnected
    <2> QED BY <1>23, <2>1, <2>2, <2>3, <2>4
          DEF TypeInv, TypeOK, ConnType, DbType, FailBoundary, Fault, durable,
          live, bounds, history
  <1>24. ASSUME OfferCheckpoint PROVE TypeInv'
    <2>1. lane' \in Lane
      BY <1>24 DEF TypeInv, TypeOK, Lane, OfferCheckpoint, Checkpoint, LaneAt,
          LaneTo, live, bounds, durable, history
    <2>2. offered' \in Snapshot \cup {NoOffer}
      BY <1>24 DEF TypeInv, TypeOK, Snapshot, OfferCheckpoint, Checkpoint,
          LaneAt, LaneTo, live, bounds, durable, history
    <2>3. UsersConnect'
      <3>1. \A d \in Conns : /\ conn'[d].user = conn[d].user
                             /\ conn'[d].at = "unused" <=> conn[d].at = "unused"
        BY <1>24
         DEF TypeInv, TypeOK, ConnType, UsersConnect, Lane,
            OpenAt, AttachAt, NoConn, Conns, OfferCheckpoint, live
      <3>2. lane'.for \in {lane.for, NoConn}
        BY <1>24, IdleLaneType DEF TypeInv, TypeOK, Lane, OfferCheckpoint,
            LaneTo
      <3> QED BY <3>1, <3>2, UsersStayConnected
    <2> QED BY <1>24, <2>1, <2>2, <2>3
          DEF TypeInv, TypeOK, ConnType, DbType, OfferCheckpoint, durable,
          live, bounds, history
  <1>25. ASSUME EndIfAbandoned PROVE TypeInv'
    <2>1. lane' \in Lane
      <3>1. lane' \in {IdleLane, [lane EXCEPT !.at = "ending", !.cause = "ALL_PLAYERS_LEFT"]}
        BY <1>25 DEF EndIfAbandoned, LaneEnds, LaneIdle
      <3> QED BY <3>1, IdleLaneType, LaneMoves DEF TypeInv, TypeOK, EndCause
    <2>2. UsersConnect'
      <3>1. \A d \in Conns : /\ conn'[d].user = conn[d].user
                             /\ conn'[d].at = "unused" <=> conn[d].at = "unused"
        BY <1>25
         DEF TypeInv, TypeOK, ConnType, UsersConnect, Lane,
            OpenAt, AttachAt, NoConn, Conns, EndIfAbandoned, live
      <3>2. lane'.for \in {lane.for, NoConn}
        BY <1>25, IdleLaneType DEF TypeInv, TypeOK, Lane, EndIfAbandoned,
            Abandoned, LaneEnds, LaneIdle
      <3> QED BY <3>1, <3>2, UsersStayConnected
    <2> QED BY <1>25, <2>1, <2>2
          DEF TypeInv, TypeOK, ConnType, DbType, EndIfAbandoned, durable,
          live, bounds, history
  <1>26. ASSUME FinishGame PROVE TypeInv'
    <2>1. lane' \in Lane
      BY <1>26, IdleLaneType DEF TypeInv, TypeOK, Lane, EndCause, NoConn,
          NoCause, FinishGame, LaneAt, IdleLane, live, bounds, durable,
          history
    <2>2. UsersConnect'
      <3>1. \A d \in Conns : /\ conn'[d].user = conn[d].user
                             /\ conn'[d].at = "unused" <=> conn[d].at = "unused"
        BY <1>26
         DEF TypeInv, TypeOK, ConnType, UsersConnect, Lane,
            OpenAt, AttachAt, NoConn, Conns, FinishGame, live
      <3>2. lane'.for \in {lane.for, NoConn}
        BY <1>26, IdleLaneType DEF TypeInv, TypeOK, Lane, FinishGame
      <3> QED BY <3>1, <3>2, UsersStayConnected
    <2> QED BY <1>26, <2>1, <2>2
          DEF TypeInv, TypeOK, ConnType, DbType, FinishGame, durable, live,
          bounds, history
  <1>27. ASSUME EndDurably PROVE TypeInv'
    <2>1. lane' \in Lane
      BY <1>27 DEF TypeInv, TypeOK, Lane, EndDurably, EndedFor, Answer,
          LaneAt, LaneTo, Fault, live, bounds, durable, history
    <2>2. DbType'
      <3>1. lane.cause \in EndCause \cup {NoCause} /\ DbType
        BY DEF TypeInv, TypeOK, Lane, DbType
      <3>2. db' \in {db, EndedFor(lane.cause)}
        BY <1>27 DEF EndDurably
      <3> QED BY <3>1, <3>2, EndedForType DEF DbType
    <2>3. faults' \in 0..MaxFaults
      BY <1>27, LiveSessionAssumption DEF LiveSessionAssumption, TypeInv,
          TypeOK, Fault, EndDurably, EndedFor, Answer, LaneAt, LaneTo, live,
          bounds, durable, history
    <2>4. UsersConnect'
      <3>1. \A d \in Conns : /\ conn'[d].user = conn[d].user
                             /\ conn'[d].at = "unused" <=> conn[d].at = "unused"
        BY <1>27
         DEF TypeInv, TypeOK, ConnType, UsersConnect, Lane,
            OpenAt, AttachAt, NoConn, Conns, EndDurably, live
      <3>2. lane'.for \in {lane.for, NoConn}
        BY <1>27, IdleLaneType DEF TypeInv, TypeOK, Lane, EndDurably, LaneTo,
            Fault
      <3> QED BY <3>1, <3>2, UsersStayConnected
    <2> QED BY <1>27, <2>1, <2>2, <2>3, <2>4
          DEF TypeInv, TypeOK, ConnType, DbType, EndDurably, Fault, durable,
          live, bounds, history
  <1>28. ASSUME TellEnd PROVE TypeInv'
    <2>1. ConnType'
      BY <1>28 DEF TypeInv, TypeOK, ConnType, OpenAt, AttachAt, ClosedAt,
          TellEnd, End, RejoinsAbandoned, IsCurrent, IsOpen, LaneAt, LaneIdle,
          IdleLane, live, bounds, durable, history
    <2>2. lane' \in Lane
      BY <1>28, IdleLaneType DEF TypeInv, TypeOK, Lane, NoConn, NoCause,
          TellEnd, End, RejoinsAbandoned, IsCurrent, IsOpen, LaneAt, LaneIdle,
          IdleLane, live, bounds, durable, history
    <2>3. phase' \in Phase
      BY <1>28 DEF TypeInv, TypeOK, Phase, TellEnd, End, RejoinsAbandoned,
          IsCurrent, IsOpen, LaneAt, LaneIdle, IdleLane, live, bounds,
          durable, history
    <2>4. (lobby \cup participants \cup rejoins \cup gone \cup stale)' \subseteq Users
      BY <1>28 DEF TypeInv, TypeOK, TellEnd, End, RejoinsAbandoned, IsCurrent,
          IsOpen, LaneAt, LaneIdle, IdleLane, live, bounds, durable, history
    <2>5. players' \in [Users -> Conns \cup {NoConn}]
      BY <1>28 DEF TypeInv, TypeOK, NoConn, Conns, TellEnd, End,
          RejoinsAbandoned, IsCurrent, IsOpen, LaneAt, LaneIdle, IdleLane,
          live, bounds, durable, history
    <2>6. timeline' \in Timeline
      BY <1>28, EmptySeq DEF TypeInv, TypeOK, Timeline, TellEnd, End,
          RejoinsAbandoned, IsCurrent, IsOpen, LaneAt, LaneIdle, IdleLane,
          live, bounds, durable, history
    <2>7. UsersConnect'
      <3>1. \A d \in Conns : /\ conn'[d].user = conn[d].user
                             /\ conn'[d].at = "unused" <=> conn[d].at = "unused"
        BY <1>28, TellEndMoves
         DEF TypeInv, TypeOK, ConnType,
            UsersConnect, Lane, OpenAt, AttachAt, NoConn, Conns, TellEnd, live
      <3>2. lane'.for \in {lane.for, NoConn}
        BY <1>28, IdleLaneType DEF TypeInv, TypeOK, Lane, TellEnd, LaneIdle
      <3> QED BY <3>1, <3>2, UsersStayConnected
    <2> QED BY <1>28, <2>1, <2>2, <2>3, <2>4, <2>5, <2>6, <2>7
          DEF TypeInv, TypeOK, ConnType, DbType, TellEnd, End, durable, live,
          bounds, history
  <1>29. ASSUME EndFailed PROVE TypeInv'
    <2>1. ConnType'
      BY <1>29 DEF TypeInv, TypeOK, ConnType, OpenAt, AttachAt, ClosedAt,
          EndFailed, AbortCauses, End, RejoinsAbandoned, IsCurrent, IsOpen,
          LaneAt, LaneTo, LaneIdle, IdleLane, live, bounds, durable, history
    <2>2. lane' \in Lane
      BY <1>29, IdleLaneType DEF TypeInv, TypeOK, Lane, NoConn, NoCause,
          EndFailed, AbortCauses, End, RejoinsAbandoned, IsCurrent, IsOpen,
          LaneAt, LaneTo, LaneIdle, IdleLane, live, bounds, durable, history
    <2>3. phase' \in Phase
      BY <1>29 DEF TypeInv, TypeOK, Phase, EndFailed, AbortCauses, End,
          RejoinsAbandoned, IsCurrent, IsOpen, LaneAt, LaneTo, LaneIdle,
          IdleLane, live, bounds, durable, history
    <2>4. (lobby \cup participants \cup rejoins \cup gone \cup stale)' \subseteq Users
      BY <1>29 DEF TypeInv, TypeOK, EndFailed, AbortCauses, End,
          RejoinsAbandoned, IsCurrent, IsOpen, LaneAt, LaneTo, LaneIdle,
          IdleLane, live, bounds, durable, history
    <2>5. players' \in [Users -> Conns \cup {NoConn}]
      BY <1>29 DEF TypeInv, TypeOK, NoConn, Conns, EndFailed, AbortCauses,
          End, RejoinsAbandoned, IsCurrent, IsOpen, LaneAt, LaneTo, LaneIdle,
          IdleLane, live, bounds, durable, history
    <2>6. timeline' \in Timeline
      BY <1>29, EmptySeq DEF TypeInv, TypeOK, Timeline, EndFailed,
          AbortCauses, End, RejoinsAbandoned, IsCurrent, IsOpen, LaneAt,
          LaneTo, LaneIdle, IdleLane, live, bounds, durable, history
    <2>7. UsersConnect'
      <3>1. \A d \in Conns : /\ conn'[d].user = conn[d].user
                             /\ conn'[d].at = "unused" <=> conn[d].at = "unused"
        BY <1>29, EndFailedEnds, EndMoves DEF TypeInv, TypeOK, ConnType, OpenAt
      <3>2. lane'.for \in {lane.for, NoConn}
        BY <1>29, IdleLaneType DEF TypeInv, TypeOK, Lane, EndFailed, LaneTo, LaneIdle
      <3> QED BY <3>1, <3>2, UsersStayConnected
    <2> QED BY <1>29, <2>1, <2>2, <2>3, <2>4, <2>5, <2>6, <2>7
          DEF TypeInv, TypeOK, ConnType, DbType, EndFailed, End, durable,
          live, bounds, history
  <1>30. ASSUME WriteCheckpoint PROVE TypeInv'
    <2>1. offered' \in Snapshot \cup {NoOffer}
      BY <1>30 DEF TypeInv, TypeOK, Snapshot, WriteCheckpoint, Fault, live,
          bounds, durable, history
    <2>2. DbType'
      <3>1. offered \in Snapshot
        BY <1>30 DEF TypeInv, TypeOK, WriteCheckpoint
      <3>2. offered.gone \subseteq Users /\ offered.disconnected \subseteq Users
        BY <3>1 DEF Snapshot
      <3>3. db' \in {db, [db EXCEPT !.gone = offered.gone, !.disconnected = offered.disconnected]}
        BY <1>30 DEF WriteCheckpoint
      <3> QED BY <3>2, <3>3 DEF TypeInv, TypeOK, DbType
    <2>3. faults' \in 0..MaxFaults
      BY <1>30, LiveSessionAssumption DEF LiveSessionAssumption, TypeInv,
          TypeOK, Fault, WriteCheckpoint, live, bounds, durable, history
    <2> QED BY <1>30, <2>1, <2>2, <2>3
          DEF TypeInv, TypeOK, ConnType, DbType, WriteCheckpoint, Fault,
          durable, live, bounds, history, UsersConnect
  <1>31. ASSUME NEW cause \in AskedCauses, AskEnd(cause) PROVE TypeInv'
    <2>1. lane' \in Lane
      BY <1>31, IdleLaneType, LiveSessionAssumption DEF LiveSessionAssumption,
          TypeInv, TypeOK, Lane, EndCause, NoConn, NoCause, AskEnd, LaneAt,
          IsLive, IdleLane, live, bounds, durable, history
    <2>2. UsersConnect'
      <3>1. \A d \in Conns : /\ conn'[d].user = conn[d].user
                             /\ conn'[d].at = "unused" <=> conn[d].at = "unused"
        BY <1>31
         DEF TypeInv, TypeOK, ConnType, UsersConnect, Lane,
            OpenAt, AttachAt, NoConn, Conns, AskEnd, live
      <3>2. lane'.for \in {lane.for, NoConn}
        BY <1>31, IdleLaneType DEF TypeInv, TypeOK, Lane, AskEnd
      <3> QED BY <3>1, <3>2, UsersStayConnected
    <2> QED BY <1>31, <2>1, <2>2
          DEF TypeInv, TypeOK, ConnType, DbType, AskEnd, durable, live,
          bounds, history
  <1>32. ASSUME EndElsewhere PROVE TypeInv'
    <2>1. ConnType'
      BY <1>32 DEF TypeInv, TypeOK, ConnType, OpenAt, AttachAt, ClosedAt,
          EndElsewhere, End, RejoinsAbandoned, IsCurrent, IsOpen, live,
          bounds, durable, history
    <2>2. phase' \in Phase
      BY <1>32 DEF TypeInv, TypeOK, Phase, EndElsewhere, End,
          RejoinsAbandoned, IsCurrent, IsOpen, live, bounds, durable, history
    <2>3. (lobby \cup participants \cup rejoins \cup gone \cup stale)' \subseteq Users
      BY <1>32 DEF TypeInv, TypeOK, EndElsewhere, End, RejoinsAbandoned,
          IsCurrent, IsOpen, live, bounds, durable, history
    <2>4. players' \in [Users -> Conns \cup {NoConn}]
      BY <1>32 DEF TypeInv, TypeOK, NoConn, Conns, EndElsewhere, End,
          RejoinsAbandoned, IsCurrent, IsOpen, live, bounds, durable, history
    <2>5. timeline' \in Timeline
      BY <1>32, EmptySeq DEF TypeInv, TypeOK, Timeline, EndElsewhere, End,
          RejoinsAbandoned, IsCurrent, IsOpen, live, bounds, durable, history
    <2>6. UsersConnect'
      <3>1. \A d \in Conns : /\ conn'[d].user = conn[d].user
                             /\ conn'[d].at = "unused" <=> conn[d].at = "unused"
        BY <1>32, EndMoves
         DEF TypeInv, TypeOK, ConnType,
            UsersConnect, Lane, OpenAt, AttachAt, NoConn, Conns, EndElsewhere,
            live
      <3>2. lane'.for \in {lane.for, NoConn}
        BY <1>32, IdleLaneType DEF TypeInv, TypeOK, Lane, EndElsewhere
      <3> QED BY <3>1, <3>2, UsersStayConnected
    <2> QED BY <1>32, <2>1, <2>2, <2>3, <2>4, <2>5, <2>6
          DEF TypeInv, TypeOK, ConnType, DbType, EndElsewhere, End, durable,
          live, bounds, history
  <1>33. ASSUME Reconcile PROVE TypeInv'
    <2>1. DbType'
      BY <1>33, EndingIsTerminal DEF TypeInv, TypeOK, DbType, EndCause,
          Reconcile, EndedFor, Fault, live, bounds, durable, history
    <2>2. faults' \in 0..MaxFaults
      BY <1>33, LiveSessionAssumption DEF LiveSessionAssumption, TypeInv,
          TypeOK, Fault, Reconcile, EndedFor, live, bounds, durable, history
    <2> QED BY <1>33, <2>1, <2>2
          DEF TypeInv, TypeOK, ConnType, DbType, Reconcile, Fault, durable,
          live, bounds, history, UsersConnect
  <1>34. ASSUME Retire PROVE TypeInv'
    <2>1. ConnType'
      BY <1>34 DEF TypeInv, TypeOK, ConnType, OpenAt, AttachAt, ClosedAt,
          Retire, End, RejoinsAbandoned, IsCurrent, IsOpen, Fault, live,
          bounds, durable, history
    <2>2. phase' \in Phase
      BY <1>34 DEF TypeInv, TypeOK, Phase, Retire, End, RejoinsAbandoned,
          IsCurrent, IsOpen, Fault, live, bounds, durable, history
    <2>3. (lobby \cup participants \cup rejoins \cup gone \cup stale)' \subseteq Users
      BY <1>34 DEF TypeInv, TypeOK, Retire, End, RejoinsAbandoned, IsCurrent,
          IsOpen, Fault, live, bounds, durable, history
    <2>4. players' \in [Users -> Conns \cup {NoConn}]
      BY <1>34 DEF TypeInv, TypeOK, NoConn, Conns, Retire, End,
          RejoinsAbandoned, IsCurrent, IsOpen, Fault, live, bounds, durable,
          history
    <2>5. timeline' \in Timeline
      BY <1>34, EmptySeq DEF TypeInv, TypeOK, Timeline, Retire, End,
          RejoinsAbandoned, IsCurrent, IsOpen, Fault, live, bounds, durable,
          history
    <2>6. faults' \in 0..MaxFaults
      BY <1>34, LiveSessionAssumption DEF LiveSessionAssumption, TypeInv,
          TypeOK, Fault, Retire, End, RejoinsAbandoned, IsCurrent, IsOpen,
          live, bounds, durable, history
    <2>7. UsersConnect'
      <3>1. \A d \in Conns : /\ conn'[d].user = conn[d].user
                             /\ conn'[d].at = "unused" <=> conn[d].at = "unused"
        BY <1>34, EndMoves
         DEF TypeInv, TypeOK, ConnType,
            UsersConnect, Lane, OpenAt, AttachAt, NoConn, Conns, Retire, live
      <3>2. lane'.for \in {lane.for, NoConn}
        BY <1>34, IdleLaneType DEF TypeInv, TypeOK, Lane, Retire, Fault
      <3> QED BY <3>1, <3>2, UsersStayConnected
    <2> QED BY <1>34, <2>1, <2>2, <2>3, <2>4, <2>5, <2>6, <2>7
          DEF TypeInv, TypeOK, ConnType, DbType, Retire, End, Fault, durable,
          live, bounds, history
  <1>35. ASSUME Crash PROVE TypeInv'
    <2>1. ConnType'
      BY <1>35 DEF TypeInv, TypeOK, ConnType, OpenAt, AttachAt, ClosedAt,
          Crash, FreshController, IdleLane, LoseConnections, Fault, live,
          bounds, durable, history
    <2>2. lane' \in Lane
      BY <1>35, IdleLaneType DEF TypeInv, TypeOK, Lane, NoConn, NoCause,
          Crash, FreshController, IdleLane, LoseConnections, Fault, live,
          bounds, durable, history
    <2>3. phase' \in Phase
      BY <1>35 DEF TypeInv, TypeOK, Phase, Crash, FreshController, IdleLane,
          LoseConnections, Fault, live, bounds, durable, history
    <2>4. (lobby \cup participants \cup rejoins \cup gone \cup stale)' \subseteq Users
      BY <1>35 DEF TypeInv, TypeOK, Crash, FreshController, IdleLane,
          LoseConnections, Fault, live, bounds, durable, history
    <2>5. players' \in [Users -> Conns \cup {NoConn}]
      BY <1>35 DEF TypeInv, TypeOK, NoConn, Conns, Crash, FreshController,
          IdleLane, LoseConnections, Fault, live, bounds, durable, history
    <2>6. presence' \in [Users -> {"none", "attached", "awaiting", "disconnected"}]
      BY <1>35 DEF TypeInv, TypeOK, Crash, FreshController, IdleLane,
          LoseConnections, Fault, live, bounds, durable, history
    <2>7. timeline' \in Timeline
      BY <1>35, EmptySeq DEF TypeInv, TypeOK, Timeline, Crash,
          FreshController, IdleLane, LoseConnections, Fault, live, bounds,
          durable, history
    <2>8. offered' \in Snapshot \cup {NoOffer}
      BY <1>35 DEF TypeInv, TypeOK, Snapshot, Crash, FreshController,
          IdleLane, LoseConnections, Fault, live, bounds, durable, history
    <2>9. faults' \in 0..MaxFaults
      BY <1>35, LiveSessionAssumption DEF LiveSessionAssumption, TypeInv,
          TypeOK, Fault, Crash, FreshController, IdleLane, LoseConnections,
          live, bounds, durable, history
    <2>10. UsersConnect'
      <3>1. \A d \in Conns : /\ conn'[d].user = conn[d].user
                             /\ conn'[d].at = "unused" <=> conn[d].at = "unused"
        BY <1>35, LostConnections
         DEF TypeInv, TypeOK, ConnType,
            UsersConnect, Lane, OpenAt, AttachAt, NoConn, Conns, Crash,
            FreshController, live
      <3>2. lane'.for \in {lane.for, NoConn}
        BY <1>35, IdleLaneType DEF TypeInv, TypeOK, Lane, Crash,
            FreshController, Fault
      <3> QED BY <3>1, <3>2, UsersStayConnected
    <2> QED BY <1>35, <2>1, <2>2, <2>3, <2>4, <2>5, <2>6, <2>7, <2>8, <2>9,
          <2>10
          DEF TypeInv, TypeOK, ConnType, DbType, Crash, FreshController,
          Fault, durable, live, bounds, history
  <1>36. ASSUME Renew PROVE TypeInv'
    <2>1. ConnType'
      BY <1>36 DEF TypeInv, TypeOK, ConnType, OpenAt, AttachAt, ClosedAt,
          Renew, FreshController, IdleLane, LoseConnections, LaneAt, live,
          bounds, durable, history
    <2>2. lane' \in Lane
      BY <1>36, IdleLaneType DEF TypeInv, TypeOK, Lane, NoConn, NoCause,
          Renew, FreshController, IdleLane, LoseConnections, LaneAt, live,
          bounds, durable, history
    <2>3. phase' \in Phase
      BY <1>36 DEF TypeInv, TypeOK, Phase, Renew, FreshController, IdleLane,
          LoseConnections, LaneAt, live, bounds, durable, history
    <2>4. (lobby \cup participants \cup rejoins \cup gone \cup stale)' \subseteq Users
      BY <1>36 DEF TypeInv, TypeOK, Renew, FreshController, IdleLane,
          LoseConnections, LaneAt, live, bounds, durable, history
    <2>5. players' \in [Users -> Conns \cup {NoConn}]
      BY <1>36 DEF TypeInv, TypeOK, NoConn, Conns, Renew, FreshController,
          IdleLane, LoseConnections, LaneAt, live, bounds, durable, history
    <2>6. presence' \in [Users -> {"none", "attached", "awaiting", "disconnected"}]
      BY <1>36 DEF TypeInv, TypeOK, Renew, FreshController, IdleLane,
          LoseConnections, LaneAt, live, bounds, durable, history
    <2>7. timeline' \in Timeline
      BY <1>36, EmptySeq DEF TypeInv, TypeOK, Timeline, Renew,
          FreshController, IdleLane, LoseConnections, LaneAt, live, bounds,
          durable, history
    <2>8. offered' \in Snapshot \cup {NoOffer}
      BY <1>36 DEF TypeInv, TypeOK, Snapshot, Renew, FreshController,
          IdleLane, LoseConnections, LaneAt, live, bounds, durable, history
    <2>9. UsersConnect'
      <3>1. \A d \in Conns : /\ conn'[d].user = conn[d].user
                             /\ conn'[d].at = "unused" <=> conn[d].at = "unused"
        BY <1>36, LostConnections
         DEF TypeInv, TypeOK, ConnType,
            UsersConnect, Lane, OpenAt, AttachAt, NoConn, Conns, Renew,
            FreshController, live
      <3>2. lane'.for \in {lane.for, NoConn}
        BY <1>36, IdleLaneType DEF TypeInv, TypeOK, Lane, Renew,
            FreshController
      <3> QED BY <3>1, <3>2, UsersStayConnected
    <2> QED BY <1>36, <2>1, <2>2, <2>3, <2>4, <2>5, <2>6, <2>7, <2>8, <2>9
          DEF TypeInv, TypeOK, ConnType, DbType, Renew, FreshController,
          durable, live, bounds, history
  <1>37. ASSUME UNCHANGED vars PROVE TypeInv'
    BY <1>37 DEF TypeInv, TypeOK, UsersConnect, vars, durable, live, bounds,
        history
  <1> QED BY <1>1, <1>2, <1>3, <1>4, <1>5, <1>6, <1>7, <1>8, <1>9, <1>10,
        <1>11, <1>12, <1>13, <1>14, <1>15, <1>16, <1>17, <1>18, <1>19, <1>20,
        <1>21, <1>22, <1>23, <1>24, <1>25, <1>26, <1>27, <1>28, <1>29, <1>30,
        <1>31, <1>32, <1>33, <1>34, <1>35, <1>36, <1>37
        DEF Next, PlayerStep, AttachStep, LaneStep

\* Every step keeps the lane tidy, and attempts on a frozen lobby.
LEMMA LaneStepInv == TypeInv /\ LaneInv /\ [Next]_vars => LaneInv'
  <1> SUFFICES ASSUME TypeInv, LaneInv, [Next]_vars PROVE LaneInv'
    OBVIOUS
  <1>0. ASSUME UNCHANGED <<lane, phase>> PROVE LaneInv'
    BY <1>0 DEF LaneInv, LaneIsTidy, AttemptsFreeze, LaneAt
  <1>1. ASSUME NEW c \in Conns, NEW u \in Users, Connect(c, u) PROVE LaneInv'
    BY <1>1, <1>0 DEF Connect, live
  <1>2. ASSUME NEW c \in Conns, CheckEligibility(c) PROVE LaneInv'
    BY <1>2, <1>0 DEF CheckEligibility, live
  <1>3. ASSUME NEW c \in Conns, JoinLobby(c) PROVE LaneInv'
    BY <1>3, <1>0 DEF JoinLobby, live
  <1>4. ASSUME NEW c \in Conns, RecoveryNotNeeded(c) PROVE LaneInv'
    BY <1>4, <1>0 DEF RecoveryNotNeeded, live
  <1>5. ASSUME NEW c \in Conns, RequestRecovery(c) PROVE LaneInv'
    BY <1>5, IdleLaneType DEF TypeInv, TypeOK, Lane, LaneInv, LaneIsTidy,
          AttemptsFreeze, StartAt, EndingAt, RequestRecovery, LaneAt, Freeze,
          live, NoCause, NoConn
  <1>6. ASSUME NEW c \in Conns, Reattach(c) PROVE LaneInv'
    BY <1>6, <1>0 DEF Reattach, live
  <1>7. ASSUME NEW c \in Conns, AskRejoin(c) PROVE LaneInv'
    BY <1>7, <1>0 DEF AskRejoin, live
  <1>8. ASSUME NEW c \in Conns, GiveUpRejoin(c) PROVE LaneInv'
    BY <1>8, <1>0 DEF GiveUpRejoin, live
  <1>9. ASSUME NEW c \in Conns, Leave(c) PROVE LaneInv'
    BY <1>9, <1>0 DEF Leave, live
  <1>10. ASSUME NEW c \in Conns, LeaveSettled(c) PROVE LaneInv'
    BY <1>10, <1>0 DEF LeaveSettled, LeaveLobby
  <1>11. ASSUME NEW c \in Conns, Disconnect(c) PROVE LaneInv'
    BY <1>11, <1>0 DEF Disconnect, LeaveLobby
  <1>12. ASSUME NEW c \in Conns, EndConnection(c) PROVE LaneInv'
    BY <1>12, <1>0 DEF EndConnection, live
  <1>13. ASSUME RequestStart PROVE LaneInv'
    BY <1>13, IdleLaneType DEF TypeInv, TypeOK, Lane, LaneInv, LaneIsTidy,
          AttemptsFreeze, StartAt, EndingAt, RequestStart, LaneAt, Freeze,
          live, NoCause, NoConn
  <1>14. ASSUME NEW expired \in SUBSET Users, TakeBoundary(expired) PROVE LaneInv'
    <2>1. PICK work \in Timeline : lane' \in {[IdleLane EXCEPT !.at = "executing", !.work = work],
                                              [IdleLane EXCEPT !.at = "deciding"]}
      BY <1>14, BoundaryTaken DEF TypeInv
    <2>2. UNCHANGED phase
      BY <1>14 DEF TakeBoundary
    <2> QED BY <2>1, <2>2, IdleLaneType DEF Lane, LaneInv, LaneIsTidy, AttemptsFreeze,
            StartAt, LaneAt, NoCause, NoConn
  <1>15. ASSUME CheckStart PROVE LaneInv'
    BY <1>15, IdleLaneType DEF TypeInv, TypeOK, Lane, LaneInv, LaneIsTidy,
          AttemptsFreeze, StartAt, EndingAt, CheckStart, LaneAt, LaneTo,
          Fault, live, NoCause, NoConn
  <1>16. ASSUME RunScript PROVE LaneInv'
    BY <1>16, IdleLaneType DEF TypeInv, TypeOK, Lane, LaneInv, LaneIsTidy,
          AttemptsFreeze, StartAt, EndingAt, RunScript, LaneAt, LaneTo,
          LaneEnds, Fault, live, NoCause, NoConn
  <1>17. ASSUME CommitStart PROVE LaneInv'
    BY <1>17, IdleLaneType DEF TypeInv, TypeOK, Lane, LaneInv, LaneIsTidy,
          AttemptsFreeze, StartAt, EndingAt, CommitStart, LaneAt, LaneTo,
          Fault, live, NoCause, NoConn
  <1>18. ASSUME CheckLifetime PROVE LaneInv'
    BY <1>18, IdleLaneType DEF TypeInv, TypeOK, Lane, LaneInv, LaneIsTidy,
          AttemptsFreeze, StartAt, EndingAt, CheckLifetime, LaneAt, LaneTo,
          LaneEnds, Fault, live, NoCause, NoConn
  <1>19. ASSUME LoadRunning PROVE LaneInv'
    BY <1>19, IdleLaneType DEF TypeInv, TypeOK, Lane, LaneInv, LaneIsTidy,
          AttemptsFreeze, StartAt, EndingAt, LoadRunning, LaneAt, LaneTo,
          Fault, live, NoCause, NoConn
  <1>20. ASSUME CompleteStart PROVE LaneInv'
    BY <1>20, IdleLaneType DEF TypeInv, TypeOK, Lane, LaneInv, LaneIsTidy,
          AttemptsFreeze, StartAt, EndingAt, CompleteStart, LaneAt, LaneIdle,
          live, NoCause, NoConn
  <1>21. ASSUME CancelStart PROVE LaneInv'
    BY <1>21, IdleLaneType DEF TypeInv, TypeOK, Lane, LaneInv, LaneIsTidy,
          AttemptsFreeze, StartAt, EndingAt, CancelStart, LaneAt, LaneIdle,
          live, NoCause, NoConn
  <1>22. ASSUME NEW executed \in 0..Len(lane.work), NEW accepted \in SUBSET Users,
             NEW finished \in BOOLEAN,
             CommitBoundary(executed, accepted, finished) PROVE LaneInv'
    <2>1. /\ lane' \in {IdleLane, [IdleLane EXCEPT !.at = "ending", !.cause = "GAME_FINISHED"],
                      [IdleLane EXCEPT !.at = "committed"]}
          /\ LaneAt("executing")
      BY <1>22 DEF CommitBoundary, LaneIdle
    <2>2. CASE lane' = IdleLane
      BY <2>2, IdleLaneType DEF LaneInv, LaneIsTidy, AttemptsFreeze, StartAt, LaneAt, NoCause
    <2>3. CASE lane' = [IdleLane EXCEPT !.at = "ending", !.cause = "GAME_FINISHED"]
      <3>1. /\ lane'.at = "ending" /\ lane'.cause = "GAME_FINISHED"
            /\ lane'.for = NoConn /\ lane'.work = <<>> /\ lane'.resumed = {}
        BY <2>3, IdleLaneType DEF Lane
      <3> QED BY <3>1 DEF LaneInv, LaneIsTidy, AttemptsFreeze, StartAt, EndingAt, LaneAt
    <2>4. CASE lane' = [IdleLane EXCEPT !.at = "committed"]
      <3>1. /\ lane'.at = "committed" /\ lane'.cause = NoCause
            /\ lane'.for = NoConn /\ lane'.work = <<>> /\ lane'.resumed = {}
        BY <2>4, IdleLaneType DEF Lane
      <3> QED BY <3>1 DEF LaneInv, LaneIsTidy, AttemptsFreeze, StartAt, LaneAt, NoCause
    <2> QED BY <2>1, <2>2, <2>3, <2>4
  <1>23. ASSUME FailBoundary PROVE LaneInv'
    <2>1. LaneAt("executing") /\ lane.for = NoConn /\ lane.resumed = {}
      BY <1>23 DEF FailBoundary, LaneAt, LaneInv, LaneIsTidy
    <2>2. CASE lane' = IdleLane
      BY <2>2, IdleLaneType DEF LaneInv, LaneIsTidy, AttemptsFreeze, StartAt, LaneAt, NoCause
    <2>3. CASE lane' = [IdleLane EXCEPT !.at = "ending", !.cause = "UNRECOVERABLE_INFRA_FAILURE"]
      <3>1. /\ lane'.at = "ending" /\ lane'.cause = "UNRECOVERABLE_INFRA_FAILURE"
            /\ lane'.for = NoConn /\ lane'.work = <<>> /\ lane'.resumed = {}
        BY <2>3, IdleLaneType DEF Lane
      <3> QED BY <3>1 DEF LaneInv, LaneIsTidy, AttemptsFreeze, StartAt, EndingAt, LaneAt
    <2>4. CASE lane' = [lane EXCEPT !.at = "ending", !.cause = "SCRIPT_FAILURE"]
      <3>1. /\ lane'.at = "ending" /\ lane'.cause = "SCRIPT_FAILURE"
            /\ lane'.for = NoConn /\ lane'.resumed = {}
        BY <2>1, <2>4 DEF TypeInv, TypeOK, Lane
      <3> QED BY <3>1 DEF LaneInv, LaneIsTidy, AttemptsFreeze, StartAt, EndingAt, LaneAt
    <2> QED BY <1>23, <2>2, <2>3, <2>4 DEF FailBoundary, LaneEnds
  <1>24. ASSUME OfferCheckpoint PROVE LaneInv'
    BY <1>24, IdleLaneType DEF TypeInv, TypeOK, Lane, LaneInv, LaneIsTidy,
          AttemptsFreeze, StartAt, EndingAt, OfferCheckpoint, LaneAt, LaneTo,
          live, NoCause, NoConn
  <1>25. ASSUME EndIfAbandoned PROVE LaneInv'
    <2>1. lane.at = "deciding" /\ lane.work = <<>> /\ lane.resumed = {} /\ UNCHANGED phase
      BY <1>25 DEF EndIfAbandoned, LaneAt, LaneInv, LaneIsTidy, EndingAt, live
    <2>2. CASE lane' = IdleLane
      BY <2>2, IdleLaneType DEF LaneInv, LaneIsTidy, AttemptsFreeze, StartAt, LaneAt, NoCause
    <2>3. CASE lane' = [lane EXCEPT !.at = "ending", !.cause = "ALL_PLAYERS_LEFT"]
      <3>1. /\ lane'.at = "ending" /\ lane'.cause = "ALL_PLAYERS_LEFT"
            /\ lane'.for = lane.for /\ lane'.work = <<>> /\ lane'.resumed = {}
        BY <2>1, <2>3 DEF TypeInv, TypeOK, Lane
      <3> QED BY <2>1, <3>1 DEF LaneInv, LaneIsTidy, AttemptsFreeze, StartAt, EndingAt, LaneAt
    <2> QED BY <1>25, <2>2, <2>3 DEF EndIfAbandoned, LaneEnds, LaneIdle
  <1>26. ASSUME FinishGame PROVE LaneInv'
    BY <1>26, IdleLaneType DEF TypeInv, TypeOK, Lane, LaneInv, LaneIsTidy,
          AttemptsFreeze, StartAt, EndingAt, FinishGame, LaneAt, live,
          NoCause, NoConn
  <1>27. ASSUME EndDurably PROVE LaneInv'
    BY <1>27, IdleLaneType DEF TypeInv, TypeOK, Lane, LaneInv, LaneIsTidy,
          AttemptsFreeze, StartAt, EndingAt, EndDurably, Answer, LaneAt,
          LaneTo, Fault, live, NoCause, NoConn
  <1>28. ASSUME TellEnd PROVE LaneInv'
    BY <1>28, IdleLaneType DEF TypeInv, TypeOK, Lane, LaneInv, LaneIsTidy,
          AttemptsFreeze, StartAt, EndingAt, TellEnd, End, LaneAt, LaneIdle,
          live, NoCause, NoConn
  <1>29. ASSUME EndFailed PROVE LaneInv'
    BY <1>29, IdleLaneType DEF TypeInv, TypeOK, Lane, LaneInv, LaneIsTidy,
          AttemptsFreeze, StartAt, EndingAt, EndFailed, AbortCauses, End,
          LaneAt, LaneTo, LaneIdle, live, NoCause, NoConn
  <1>30. ASSUME WriteCheckpoint PROVE LaneInv'
    BY <1>30, <1>0 DEF WriteCheckpoint, live
  <1>31. ASSUME NEW cause \in AskedCauses, AskEnd(cause) PROVE LaneInv'
    BY <1>31, IdleLaneType, LiveSessionAssumption DEF TypeInv, TypeOK, Lane,
          LaneInv, LaneIsTidy, AttemptsFreeze, StartAt, EndingAt, AskEnd,
          LaneAt, IsLive, live, NoCause, NoConn, LiveSessionAssumption
  <1>32. ASSUME EndElsewhere PROVE LaneInv'
    BY <1>32, IdleLaneType DEF TypeInv, TypeOK, Lane, LaneInv, LaneIsTidy,
          AttemptsFreeze, StartAt, EndingAt, EndElsewhere, End, live, NoCause,
          NoConn, LaneAt
  <1>33. ASSUME Reconcile PROVE LaneInv'
    BY <1>33, <1>0 DEF Reconcile, live
  <1>34. ASSUME Retire PROVE LaneInv'
    BY <1>34, IdleLaneType DEF TypeInv, TypeOK, Lane, LaneInv, LaneIsTidy,
          AttemptsFreeze, StartAt, EndingAt, Retire, End, Fault, live,
          NoCause, NoConn, LaneAt
  <1>35. ASSUME Crash PROVE LaneInv'
    BY <1>35, IdleLaneType DEF TypeInv, TypeOK, Lane, LaneInv, LaneIsTidy,
          AttemptsFreeze, StartAt, EndingAt, Crash, FreshController, Fault,
          live, NoCause, NoConn, LaneAt
  <1>36. ASSUME Renew PROVE LaneInv'
    BY <1>36, IdleLaneType DEF TypeInv, TypeOK, Lane, LaneInv, LaneIsTidy,
          AttemptsFreeze, StartAt, EndingAt, Renew, FreshController, LaneAt,
          live, NoCause, NoConn
  <1>37. ASSUME UNCHANGED vars PROVE LaneInv'
    BY <1>37, <1>0 DEF vars, live
  <1> QED BY <1>1, <1>2, <1>3, <1>4, <1>5, <1>6, <1>7, <1>8, <1>9, <1>10,
        <1>11, <1>12, <1>13, <1>14, <1>15, <1>16, <1>17, <1>18, <1>19, <1>20,
        <1>21, <1>22, <1>23, <1>24, <1>25, <1>26, <1>27, <1>28, <1>29, <1>30,
        <1>31, <1>32, <1>33, <1>34, <1>35, <1>36, <1>37
        DEF Next, PlayerStep, AttachStep, LaneStep

\* Whose connection a current one is, and where it cannot be.
LEMMA CurrentIsOwned ==
  ASSUME TypeInv, ConnectionsAreOwned, NEW c \in Conns
  PROVE  /\ IsCurrent(c) => players[conn[c].user] = c /\ conn[c].user \in Users
                            /\ conn[c].at \notin AttachAt \cup {"unused", "replaced"}
         /\ conn[c].at \in {"open", "leaving"} => IsCurrent(c)
         /\ lane.for = c => conn[c].at = "recovering" /\ ~IsCurrent(c)
  <1>1. c # NoConn
    BY DEF Conns, NoConn
  <1>2. ASSUME NEW u \in Users, players[u] = c
        PROVE  conn[c].user = u /\ conn[c].at \notin AttachAt \cup {"unused", "replaced"}
    BY <1>1, <1>2 DEF ConnectionsAreOwned
  <1>3. conn[c].at \in {"open", "leaving"} => IsCurrent(c)
    BY DEF ConnectionsAreOwned, NobodyIsForgotten, TypeInv, UsersConnect, IsCurrent
  <1>4. lane.for = c => conn[c].at = "recovering"
    BY <1>1 DEF ConnectionsAreOwned
  <1> QED BY <1>2, <1>3, <1>4 DEF IsCurrent, AttachAt

\* Connections that end, or move on without being admitted, stay owned.
LEMMA OwnedAfter ==
  ASSUME TypeInv, TypeInv', ConnectionsAreOwned,
         \A u \in Users : players'[u] \in {players[u], NoConn},
         \A d \in Conns :
           /\ conn'[d].user = conn[d].user
           /\ IsCurrent(d) => conn'[d].at \notin AttachAt \cup {"unused", "replaced"}
           /\ conn'[d].at \in {"open", "leaving"} =>
                conn[d].at \in {"open", "leaving"} /\ players'[conn[d].user] = players[conn[d].user]
           /\ d = lane'.for => conn'[d].at = "recovering",
         lane'.for \in Conns \cup {NoConn}
  PROVE  ConnectionsAreOwned'
  <1>1. ASSUME NEW u \in Users, players'[u] # NoConn
        PROVE  /\ conn'[players'[u]].user = u
               /\ conn'[players'[u]].at \notin AttachAt \cup {"unused", "replaced"}
    <2>1. players'[u] = players[u] /\ players[u] \in Conns
      BY <1>1 DEF TypeInv, TypeOK
    <2>2. IsCurrent(players[u])
      BY DEF IsCurrent
    <2>3. conn[players[u]].user = u
      BY <1>1, <2>1 DEF ConnectionsAreOwned
    <2> QED BY <2>1, <2>2, <2>3
  <1>2. ASSUME NEW c \in Conns, conn'[c].at \in {"open", "leaving"}
        PROVE  players'[conn'[c].user] = c
    BY <1>2 DEF ConnectionsAreOwned, NobodyIsForgotten
  <1>3. lane'.for # NoConn => conn'[lane'.for].at = "recovering"
    OBVIOUS
  <1> QED BY <1>1, <1>2, <1>3 DEF ConnectionsAreOwned, NobodyIsForgotten

\* A user's newer connection replaces their older one.
LEMMA OwnedAdmission ==
  ASSUME TypeInv, TypeInv', ConnectionsAreOwned, NEW c \in Conns, NEW u \in Users,
         conn[c].user = u, conn[c].at \in AttachAt, conn[c].at # "recovering",
         MoveReplacing(c, "open", players[u]),
         players' = [players EXCEPT ![u] = c], UNCHANGED lane
  PROVE  ConnectionsAreOwned'
  <1>1. \A d \in Conns :
          /\ conn'[d].user = conn[d].user
          /\ d = c => conn'[d].at = "open"
          /\ d # c /\ d # players[u] => conn'[d].at = conn[d].at
          /\ conn'[d].at \in {"open", "leaving"} => d = c \/ (conn[d].at \in {"open", "leaving"} /\ d # players[u])
          /\ conn[d].at = "recovering" => conn'[d].at = "recovering"
    <2>1. ConnType
      BY DEF TypeInv, TypeOK, ConnType
    <2>2. c # players[u]
      BY CurrentIsOwned DEF IsCurrent
    <2> QED BY <2>1, <2>2, MoveReplacingMoves DEF OpenAt, AttachAt
  <1>2. ASSUME NEW v \in Users, players'[v] # NoConn
        PROVE  /\ conn'[players'[v]].user = v
               /\ conn'[players'[v]].at \notin AttachAt \cup {"unused", "replaced"}
    <2>1. CASE v = u
      BY <1>1, <2>1 DEF TypeInv, TypeOK, AttachAt
    <2>2. CASE v # u
      <3>1. players'[v] = players[v] /\ players[v] \in Conns
        BY <1>2, <2>2 DEF TypeInv, TypeOK
      <3>2. conn[players[v]].user = v /\ conn[players[v]].at \notin AttachAt \cup {"unused", "replaced"}
        BY <1>2, <3>1 DEF ConnectionsAreOwned
      <3>3. players[v] # c /\ players[v] # players[u]
        BY <1>2, <2>2, <3>1, <3>2 DEF ConnectionsAreOwned
      <3> QED BY <1>1, <3>1, <3>2, <3>3
    <2> QED BY <2>1, <2>2
  <1>3. ASSUME NEW d \in Conns, conn'[d].at \in {"open", "leaving"}
        PROVE  players'[conn'[d].user] = d
    <2>1. CASE d = c
      BY <1>1, <2>1 DEF TypeInv, TypeOK
    <2>2. CASE d # c
      <3>1. players[conn[d].user] = d /\ conn[d].at # "unused"
        BY <1>1, <1>3, <2>2 DEF ConnectionsAreOwned, NobodyIsForgotten
      <3>2. conn[d].user \in Users /\ conn[d].user # u
        BY <1>1, <1>3, <2>2, <3>1 DEF TypeInv, UsersConnect
      <3> QED BY <1>1, <3>1, <3>2 DEF TypeInv, TypeOK
    <2> QED BY <2>1, <2>2
  <1>4. lane'.for # NoConn => conn'[lane'.for].at = "recovering"
    BY <1>1 DEF ConnectionsAreOwned, TypeInv, TypeOK, Lane
  <1> QED BY <1>2, <1>3, <1>4 DEF ConnectionsAreOwned, NobodyIsForgotten

\* Every step keeps the connections owned.
LEMMA OwnedStep == TypeInv /\ LaneInv /\ ConnectionsAreOwned /\ [Next]_vars => ConnectionsAreOwned'
  <1> SUFFICES ASSUME TypeInv, LaneInv, ConnectionsAreOwned, [Next]_vars PROVE ConnectionsAreOwned'
    OBVIOUS
  <1>t. TypeInv'
    BY TypeStep
  <1>f. lane'.for \in Conns \cup {NoConn}
    BY <1>t DEF TypeInv, TypeOK, Lane
  <1>c. \A d \in Conns :
          /\ IsCurrent(d) => /\ players[conn[d].user] = d /\ conn[d].user \in Users
                             /\ conn[d].at \notin AttachAt \cup {"unused", "replaced"}
          /\ conn[d].at \in {"open", "leaving"} => IsCurrent(d)
          /\ lane.for = d => conn[d].at = "recovering" /\ ~IsCurrent(d)
    BY CurrentIsOwned
  <1>0. ASSUME UNCHANGED <<players, conn, lane>> PROVE ConnectionsAreOwned'
    BY <1>0 DEF ConnectionsAreOwned, NobodyIsForgotten
  <1>1. ASSUME NEW c \in Conns, NEW u \in Users, Connect(c, u) PROVE ConnectionsAreOwned'
    <2>1. \A d \in Conns : d # c => conn'[d] = conn[d]
      BY <1>1 DEF TypeInv, TypeOK, Connect
    <2>2. conn'[c].user = u /\ conn'[c].at \in AttachAt \ {"recovering"}
      BY <1>1 DEF TypeInv, TypeOK, Connect, AttachAt
    <2>3. conn[c].at = "unused" /\ UNCHANGED <<players, lane>>
      BY <1>1 DEF Connect, live
    <2>4. ~IsCurrent(c) /\ lane.for # c
      BY <1>c, <2>3
    <2> QED BY <2>1, <2>2, <2>3, <2>4 DEF TypeInv, TypeOK, Lane, ConnectionsAreOwned, NobodyIsForgotten,
                                      IsCurrent, AttachAt
  <1>2. ASSUME NEW c \in Conns, CheckEligibility(c) PROVE ConnectionsAreOwned'
    <2>1. \A u \in Users : players'[u] \in {players[u], NoConn}
      BY <1>2 DEF TypeInv, TypeOK, CheckEligibility, live
    <2>2. \A d \in Conns :
            /\ conn'[d].user = conn[d].user
            /\ IsCurrent(d) => conn'[d].at \notin AttachAt \cup {"unused", "replaced"}
            /\ conn'[d].at \in {"open", "leaving"} =>
                 conn[d].at \in {"open", "leaving"} /\ players'[conn[d].user] = players[conn[d].user]
            /\ d = lane'.for => conn'[d].at = "recovering"
      BY <1>2, <1>t, <1>c, MoveToMoves, IdleLaneType DEF TypeInv, TypeOK,
          ConnType, CheckEligibility, AttachAt, NoConn, Conns, live
    <2> QED BY <1>t, <1>f, <2>1, <2>2, OwnedAfter
  <1>3. ASSUME NEW c \in Conns, JoinLobby(c) PROVE ConnectionsAreOwned'
    <2>1. CASE UNCHANGED players /\ MoveTo(c, "closed")
      <3>1. \A d \in Conns :
              /\ conn'[d].user = conn[d].user
              /\ IsCurrent(d) => conn'[d].at \notin AttachAt \cup {"unused", "replaced"}
              /\ conn'[d].at \in {"open", "leaving"} =>
                   conn[d].at \in {"open", "leaving"} /\ players'[conn[d].user] = players[conn[d].user]
              /\ d = lane'.for => conn'[d].at = "recovering"
        BY <1>3, <1>c, <2>1, MoveToMoves DEF TypeInv, TypeOK, ConnType, JoinLobby, AttachAt, NoConn, Conns
      <3> QED BY <1>t, <1>f, <2>1, <3>1, OwnedAfter
    <2>2. CASE players' = [players EXCEPT ![conn[c].user] = c] /\ MoveReplacing(c, "open", players[conn[c].user])
      <3>1. conn[c].user \in Users
        BY <1>3 DEF TypeInv, UsersConnect, JoinLobby
      <3> QED BY <1>3, <1>t, <2>2, <3>1, OwnedAdmission DEF JoinLobby, AttachAt
    <2> QED BY <1>3, <2>1, <2>2 DEF JoinLobby
  <1>4. ASSUME NEW c \in Conns, RecoveryNotNeeded(c) PROVE ConnectionsAreOwned'
    <2>1. \A u \in Users : players'[u] \in {players[u], NoConn}
      BY <1>4 DEF TypeInv, TypeOK, RecoveryNotNeeded, live
    <2>2. \A d \in Conns :
            /\ conn'[d].user = conn[d].user
            /\ IsCurrent(d) => conn'[d].at \notin AttachAt \cup {"unused", "replaced"}
            /\ conn'[d].at \in {"open", "leaving"} =>
                 conn[d].at \in {"open", "leaving"} /\ players'[conn[d].user] = players[conn[d].user]
            /\ d = lane'.for => conn'[d].at = "recovering"
      BY <1>4, <1>t, <1>c, MoveToMoves, IdleLaneType DEF TypeInv, TypeOK,
          ConnType, RecoveryNotNeeded, AttachAt, NoConn, Conns, live
    <2> QED BY <1>t, <1>f, <2>1, <2>2, OwnedAfter
  <1>5. ASSUME NEW c \in Conns, RequestRecovery(c) PROVE ConnectionsAreOwned'
    <2>1. CASE Freeze /\ UNCHANGED conn /\ lane' = [IdleLane EXCEPT !.at = "limits", !.for = c]
      <3>1. lane'.for = c
        BY <2>1, IdleLaneType DEF Lane
      <3> QED BY <1>5, <2>1, <3>1 DEF RequestRecovery, Freeze, ConnectionsAreOwned, NobodyIsForgotten
    <2>2. CASE UNCHANGED <<live, lane>> /\ MoveTo(c, "closed")
      <3>0. lane.for = NoConn /\ UNCHANGED players
        BY <1>5, <2>2, IdleLaneType DEF RequestRecovery, LaneInv, LaneIsTidy, live
      <3>1. \A d \in Conns :
              /\ conn'[d].user = conn[d].user
              /\ IsCurrent(d) => conn'[d].at \notin AttachAt \cup {"unused", "replaced"}
              /\ conn'[d].at \in {"open", "leaving"} =>
                   conn[d].at \in {"open", "leaving"} /\ players'[conn[d].user] = players[conn[d].user]
              /\ d = lane'.for => conn'[d].at = "recovering"
        BY <1>5, <1>c, <2>2, <3>0, MoveToMoves DEF TypeInv, TypeOK, ConnType, RequestRecovery, AttachAt, NoConn, Conns
      <3> QED BY <1>t, <1>f, <2>2, <3>0, <3>1, OwnedAfter
    <2> QED BY <1>5, <2>1, <2>2 DEF RequestRecovery
  <1>6. ASSUME NEW c \in Conns, Reattach(c) PROVE ConnectionsAreOwned'
    <2>1. CASE UNCHANGED players /\ \E at \in {"checking", "closed", "asking"} : MoveTo(c, at)
      <3>0. PICK at \in {"checking", "closed", "asking"} : MoveTo(c, at)
        BY <2>1
      <3>1. \A d \in Conns :
              /\ conn'[d].user = conn[d].user
              /\ IsCurrent(d) => conn'[d].at \notin AttachAt \cup {"unused", "replaced"}
              /\ conn'[d].at \in {"open", "leaving"} =>
                   conn[d].at \in {"open", "leaving"} /\ players'[conn[d].user] = players[conn[d].user]
              /\ d = lane'.for => conn'[d].at = "recovering"
        BY <1>6, <1>c, <2>1, <3>0, MoveToMoves DEF TypeInv, TypeOK, ConnType, Reattach, AttachAt, NoConn, Conns
      <3> QED BY <1>t, <1>f, <2>1, <3>0, <3>1, OwnedAfter
    <2>2. CASE players' = [players EXCEPT ![conn[c].user] = c] /\ MoveReplacing(c, "open", players[conn[c].user])
      <3>1. conn[c].user \in Users
        BY <1>6 DEF TypeInv, UsersConnect, Reattach
      <3> QED BY <1>6, <1>t, <2>2, <3>1, OwnedAdmission DEF Reattach, AttachAt
    <2> QED BY <1>6, <2>1, <2>2 DEF Reattach, live
  <1>7. ASSUME NEW c \in Conns, AskRejoin(c) PROVE ConnectionsAreOwned'
    <2>1. \A u \in Users : players'[u] \in {players[u], NoConn}
      BY <1>7 DEF TypeInv, TypeOK, AskRejoin, live
    <2>2. \A d \in Conns :
            /\ conn'[d].user = conn[d].user
            /\ IsCurrent(d) => conn'[d].at \notin AttachAt \cup {"unused", "replaced"}
            /\ conn'[d].at \in {"open", "leaving"} =>
                 conn[d].at \in {"open", "leaving"} /\ players'[conn[d].user] = players[conn[d].user]
            /\ d = lane'.for => conn'[d].at = "recovering"
      BY <1>7, <1>t, <1>c, MoveToMoves, IdleLaneType DEF TypeInv, TypeOK,
          ConnType, AskRejoin, AttachAt, NoConn, Conns, live
    <2> QED BY <1>t, <1>f, <2>1, <2>2, OwnedAfter
  <1>8. ASSUME NEW c \in Conns, GiveUpRejoin(c) PROVE ConnectionsAreOwned'
    <2>1. \A u \in Users : players'[u] \in {players[u], NoConn}
      BY <1>8 DEF TypeInv, TypeOK, GiveUpRejoin, live
    <2>2. \A d \in Conns :
            /\ conn'[d].user = conn[d].user
            /\ IsCurrent(d) => conn'[d].at \notin AttachAt \cup {"unused", "replaced"}
            /\ conn'[d].at \in {"open", "leaving"} =>
                 conn[d].at \in {"open", "leaving"} /\ players'[conn[d].user] = players[conn[d].user]
            /\ d = lane'.for => conn'[d].at = "recovering"
      BY <1>8, <1>t, <1>c, MoveToMoves, IdleLaneType DEF TypeInv, TypeOK,
          ConnType, GiveUpRejoin, AttachAt, NoConn, Conns, live
    <2> QED BY <1>t, <1>f, <2>1, <2>2, OwnedAfter
  <1>9. ASSUME NEW c \in Conns, Leave(c) PROVE ConnectionsAreOwned'
    <2>1. \A u \in Users : players'[u] \in {players[u], NoConn}
      BY <1>9 DEF TypeInv, TypeOK, Leave, live
    <2>2. \A d \in Conns :
            /\ conn'[d].user = conn[d].user
            /\ IsCurrent(d) => conn'[d].at \notin AttachAt \cup {"unused", "replaced"}
            /\ conn'[d].at \in {"open", "leaving"} =>
                 conn[d].at \in {"open", "leaving"} /\ players'[conn[d].user] = players[conn[d].user]
            /\ d = lane'.for => conn'[d].at = "recovering"
      BY <1>9, <1>t, <1>c, MoveToMoves, IdleLaneType DEF TypeInv, TypeOK,
          ConnType, Leave, AttachAt, NoConn, Conns, live
    <2> QED BY <1>t, <1>f, <2>1, <2>2, OwnedAfter
  <1>10. ASSUME NEW c \in Conns, LeaveSettled(c) PROVE ConnectionsAreOwned'
    <2>1. \A u \in Users : players'[u] \in {players[u], NoConn}
      BY <1>10 DEF TypeInv, TypeOK, LeaveSettled, LeaveLobby
    <2>2. \A d \in Conns :
            /\ conn'[d].user = conn[d].user
            /\ IsCurrent(d) => conn'[d].at \notin AttachAt \cup {"unused", "replaced"}
            /\ conn'[d].at \in {"open", "leaving"} =>
                 conn[d].at \in {"open", "leaving"} /\ players'[conn[d].user] = players[conn[d].user]
            /\ d = lane'.for => conn'[d].at = "recovering"
      BY <1>10, <1>t, <1>c, MoveToMoves, IdleLaneType DEF TypeInv, TypeOK,
          ConnType, LeaveSettled, AttachAt, NoConn, Conns, LeaveLobby, IsOpen,
          OpenAt, live
    <2> QED BY <1>t, <1>f, <2>1, <2>2, OwnedAfter
  <1>11. ASSUME NEW c \in Conns, Disconnect(c) PROVE ConnectionsAreOwned'
    <2>1. \A u \in Users : players'[u] \in {players[u], NoConn}
      BY <1>11 DEF TypeInv, TypeOK, Disconnect, LeaveLobby
    <2>2. \A d \in Conns :
            /\ conn'[d].user = conn[d].user
            /\ IsCurrent(d) => conn'[d].at \notin AttachAt \cup {"unused", "replaced"}
            /\ conn'[d].at \in {"open", "leaving"} =>
                 conn[d].at \in {"open", "leaving"} /\ players'[conn[d].user] = players[conn[d].user]
            /\ d = lane'.for => conn'[d].at = "recovering"
      BY <1>11, <1>t, <1>c, MoveToMoves, IdleLaneType DEF TypeInv, TypeOK,
          ConnType, Disconnect, AttachAt, NoConn, Conns, LeaveLobby, IsOpen,
          OpenAt, live
    <2> QED BY <1>t, <1>f, <2>1, <2>2, OwnedAfter
  <1>12. ASSUME NEW c \in Conns, EndConnection(c) PROVE ConnectionsAreOwned'
    <2>1. \A u \in Users : players'[u] \in {players[u], NoConn}
      BY <1>12 DEF TypeInv, TypeOK, EndConnection, live
    <2>2. \A d \in Conns :
            /\ conn'[d].user = conn[d].user
            /\ IsCurrent(d) => conn'[d].at \notin AttachAt \cup {"unused", "replaced"}
            /\ conn'[d].at \in {"open", "leaving"} =>
                 conn[d].at \in {"open", "leaving"} /\ players'[conn[d].user] = players[conn[d].user]
            /\ d = lane'.for => conn'[d].at = "recovering"
      BY <1>12, <1>t, <1>c, MoveToMoves, IdleLaneType DEF TypeInv, TypeOK,
          ConnType, EndConnection, AttachAt, NoConn, Conns, live
    <2> QED BY <1>t, <1>f, <2>1, <2>2, OwnedAfter
  <1>13. ASSUME RequestStart PROVE ConnectionsAreOwned'
    <2>1. UNCHANGED <<conn, players>> /\ lane'.for \in {lane.for, NoConn}
      BY <1>13, IdleLaneType DEF TypeInv, TypeOK, Lane, RequestStart, Freeze,
          live
    <2> QED BY <2>1 DEF ConnectionsAreOwned, NobodyIsForgotten
  <1>14. ASSUME NEW expired \in SUBSET Users, TakeBoundary(expired) PROVE ConnectionsAreOwned'
    <2>1. UNCHANGED <<conn, players>> /\ lane'.for = NoConn
      BY <1>14, BoundaryTaken, IdleLaneType DEF TypeInv, TakeBoundary, Lane
    <2> QED BY <2>1 DEF ConnectionsAreOwned, NobodyIsForgotten
  <1>15. ASSUME CheckStart PROVE ConnectionsAreOwned'
    <2>1. UNCHANGED <<conn, players>> /\ lane'.for \in {lane.for, NoConn}
      BY <1>15, IdleLaneType DEF TypeInv, TypeOK, Lane, CheckStart, LaneTo, live
    <2> QED BY <2>1 DEF ConnectionsAreOwned, NobodyIsForgotten
  <1>16. ASSUME RunScript PROVE ConnectionsAreOwned'
    <2>1. UNCHANGED <<conn, players>> /\ lane'.for \in {lane.for, NoConn}
      BY <1>16, IdleLaneType DEF TypeInv, TypeOK, Lane, RunScript, LaneTo,
          LaneEnds, live
    <2> QED BY <2>1 DEF ConnectionsAreOwned, NobodyIsForgotten
  <1>17. ASSUME CommitStart PROVE ConnectionsAreOwned'
    <2>1. UNCHANGED <<conn, players>> /\ lane'.for \in {lane.for, NoConn}
      BY <1>17, IdleLaneType DEF TypeInv, TypeOK, Lane, CommitStart, LaneTo, live
    <2> QED BY <2>1 DEF ConnectionsAreOwned, NobodyIsForgotten
  <1>18. ASSUME CheckLifetime PROVE ConnectionsAreOwned'
    <2>1. UNCHANGED <<conn, players>> /\ lane'.for \in {lane.for, NoConn}
      BY <1>18, IdleLaneType DEF TypeInv, TypeOK, Lane, CheckLifetime, LaneTo,
          LaneEnds, live
    <2> QED BY <2>1 DEF ConnectionsAreOwned, NobodyIsForgotten
  <1>19. ASSUME LoadRunning PROVE ConnectionsAreOwned'
    <2>1. UNCHANGED <<conn, players>> /\ lane'.for \in {lane.for, NoConn}
      BY <1>19, IdleLaneType DEF TypeInv, TypeOK, Lane, LoadRunning, LaneTo, live
    <2> QED BY <2>1 DEF ConnectionsAreOwned, NobodyIsForgotten
  <1>20. ASSUME CompleteStart PROVE ConnectionsAreOwned'
    <2>1. \A u \in Users : players'[u] \in {players[u], NoConn}
      BY <1>20 DEF TypeInv, TypeOK, CompleteStart, live
    <2>2. \A d \in Conns :
            /\ conn'[d].user = conn[d].user
            /\ IsCurrent(d) => conn'[d].at \notin AttachAt \cup {"unused", "replaced"}
            /\ conn'[d].at \in {"open", "leaving"} =>
                 conn[d].at \in {"open", "leaving"} /\ players'[conn[d].user] = players[conn[d].user]
            /\ d = lane'.for => conn'[d].at = "recovering"
      BY <1>20, <1>t, <1>c, CompleteStartMoves, IdleLaneType DEF TypeInv, TypeOK,
          ConnType, CompleteStart, AttachAt, NoConn, Conns, LaneIdle, IsOpen,
          OpenAt, live
    <2> QED BY <1>t, <1>f, <2>1, <2>2, OwnedAfter
  <1>21. ASSUME CancelStart PROVE ConnectionsAreOwned'
    <2>1. \A u \in Users : players'[u] \in {players[u], NoConn}
      BY <1>21 DEF TypeInv, TypeOK, CancelStart, live
    <2>2. \A d \in Conns :
            /\ conn'[d].user = conn[d].user
            /\ IsCurrent(d) => conn'[d].at \notin AttachAt \cup {"unused", "replaced"}
            /\ conn'[d].at \in {"open", "leaving"} =>
                 conn[d].at \in {"open", "leaving"} /\ players'[conn[d].user] = players[conn[d].user]
            /\ d = lane'.for => conn'[d].at = "recovering"
      BY <1>21, <1>t, <1>c, CancelStartMoves, IdleLaneType DEF TypeInv, TypeOK,
          ConnType, CancelStart, AttachAt, NoConn, Conns, LaneIdle, Lane,
          StillConnected, IsOpen, OpenAt, live
    <2> QED BY <1>t, <1>f, <2>1, <2>2, OwnedAfter
  <1>22. ASSUME NEW executed \in 0..Len(lane.work), NEW accepted \in SUBSET Users,
             NEW finished \in BOOLEAN,
             CommitBoundary(executed, accepted, finished) PROVE ConnectionsAreOwned'
    <2>0. UNCHANGED players /\ lane'.for = NoConn
      <3>1. lane' \in {IdleLane, [IdleLane EXCEPT !.at = "ending", !.cause = "GAME_FINISHED"],
                     [IdleLane EXCEPT !.at = "committed"]}
        BY <1>22 DEF CommitBoundary, LaneIdle
      <3> QED BY <1>22, <3>1, IdleLaneType DEF CommitBoundary, live, Lane
    <2>1. \A u \in Users : players'[u] \in {players[u], NoConn}
      BY <1>22 DEF TypeInv, TypeOK, CommitBoundary, live
    <2>2. \A d \in Conns :
            /\ conn'[d].user = conn[d].user
            /\ IsCurrent(d) => conn'[d].at \notin AttachAt \cup {"unused", "replaced"}
            /\ conn'[d].at \in {"open", "leaving"} =>
                 conn[d].at \in {"open", "leaving"} /\ players'[conn[d].user] = players[conn[d].user]
            /\ d = lane'.for => conn'[d].at = "recovering"
      BY <1>22, <2>0, <1>t, <1>c, CommitBoundaryMoves, IdleLaneType DEF TypeInv,
          TypeOK, ConnType, AttachAt, NoConn, Conns, LaneIdle,
          live
    <2> QED BY <1>t, <1>f, <2>1, <2>2, OwnedAfter
  <1>23. ASSUME FailBoundary PROVE ConnectionsAreOwned'
    <2>1. UNCHANGED <<conn, players>> /\ lane'.for \in {lane.for, NoConn}
      BY <1>23, IdleLaneType DEF TypeInv, TypeOK, Lane, FailBoundary, LaneEnds,
          Fault, live
    <2> QED BY <2>1 DEF ConnectionsAreOwned, NobodyIsForgotten
  <1>24. ASSUME OfferCheckpoint PROVE ConnectionsAreOwned'
    <2>1. UNCHANGED <<conn, players>> /\ lane'.for \in {lane.for, NoConn}
      BY <1>24, IdleLaneType DEF TypeInv, TypeOK, Lane, OfferCheckpoint, LaneTo,
          live
    <2> QED BY <2>1 DEF ConnectionsAreOwned, NobodyIsForgotten
  <1>25. ASSUME EndIfAbandoned PROVE ConnectionsAreOwned'
    <2>1. UNCHANGED <<conn, players>> /\ lane'.for \in {lane.for, NoConn}
      BY <1>25, IdleLaneType DEF TypeInv, TypeOK, Lane, EndIfAbandoned, LaneEnds,
          LaneIdle, Abandoned, live
    <2> QED BY <2>1 DEF ConnectionsAreOwned, NobodyIsForgotten
  <1>26. ASSUME FinishGame PROVE ConnectionsAreOwned'
    <2>1. UNCHANGED <<conn, players>> /\ lane'.for \in {lane.for, NoConn}
      BY <1>26, IdleLaneType DEF TypeInv, TypeOK, Lane, FinishGame, live
    <2> QED BY <2>1 DEF ConnectionsAreOwned, NobodyIsForgotten
  <1>27. ASSUME EndDurably PROVE ConnectionsAreOwned'
    <2>1. UNCHANGED <<conn, players>> /\ lane'.for \in {lane.for, NoConn}
      BY <1>27, IdleLaneType DEF TypeInv, TypeOK, Lane, EndDurably, LaneTo, live
    <2> QED BY <2>1 DEF ConnectionsAreOwned, NobodyIsForgotten
  <1>28. ASSUME TellEnd PROVE ConnectionsAreOwned'
    <2>1. \A u \in Users : players'[u] \in {players[u], NoConn}
      BY <1>28 DEF TypeInv, TypeOK, TellEnd, live, End
    <2>2. \A d \in Conns :
            /\ conn'[d].user = conn[d].user
            /\ IsCurrent(d) => conn'[d].at \notin AttachAt \cup {"unused", "replaced"}
            /\ conn'[d].at \in {"open", "leaving"} =>
                 conn[d].at \in {"open", "leaving"} /\ players'[conn[d].user] = players[conn[d].user]
            /\ d = lane'.for => conn'[d].at = "recovering"
      BY <1>28, <1>t, <1>c, TellEndMoves, IdleLaneType DEF TypeInv, TypeOK,
          ConnType, TellEnd, AttachAt, NoConn, Conns, LaneIdle, OpenAt, End,
          live
    <2> QED BY <1>t, <1>f, <2>1, <2>2, OwnedAfter
  <1>29. ASSUME EndFailed PROVE ConnectionsAreOwned'
    <2>1. \A u \in Users : players'[u] \in {players[u], NoConn}
      BY <1>29 DEF TypeInv, TypeOK, EndFailed, live, End
    <2>2. \A d \in Conns :
            /\ conn'[d].user = conn[d].user
            /\ IsCurrent(d) => conn'[d].at \notin AttachAt \cup {"unused", "replaced"}
            /\ conn'[d].at \in {"open", "leaving"} =>
                 conn[d].at \in {"open", "leaving"} /\ players'[conn[d].user] = players[conn[d].user]
            /\ d = lane'.for => conn'[d].at = "recovering"
      BY <1>29, <1>t, <1>c, EndFailedEnds, EndMoves, IdleLaneType DEF TypeInv,
          TypeOK, ConnType, EndFailed, AttachAt, NoConn, Conns, LaneIdle,
          LaneTo, OpenAt, Lane, live
    <2> QED BY <1>t, <1>f, <2>1, <2>2, OwnedAfter
  <1>30. ASSUME WriteCheckpoint PROVE ConnectionsAreOwned'
    BY <1>30, <1>0 DEF WriteCheckpoint, durable, live, bounds, history
  <1>31. ASSUME NEW cause \in AskedCauses, AskEnd(cause) PROVE ConnectionsAreOwned'
    <2>1. UNCHANGED <<conn, players>> /\ lane'.for \in {lane.for, NoConn}
      BY <1>31, IdleLaneType DEF TypeInv, TypeOK, Lane, AskEnd, live
    <2> QED BY <2>1 DEF ConnectionsAreOwned, NobodyIsForgotten
  <1>32. ASSUME EndElsewhere PROVE ConnectionsAreOwned'
    <2>1. \A u \in Users : players'[u] \in {players[u], NoConn}
      BY <1>32 DEF TypeInv, TypeOK, EndElsewhere, End
    <2>2. \A d \in Conns :
            /\ conn'[d].user = conn[d].user
            /\ IsCurrent(d) => conn'[d].at \notin AttachAt \cup {"unused", "replaced"}
            /\ conn'[d].at \in {"open", "leaving"} =>
                 conn[d].at \in {"open", "leaving"} /\ players'[conn[d].user] = players[conn[d].user]
            /\ d = lane'.for => conn'[d].at = "recovering"
      BY <1>32, <1>t, <1>c, EndMoves, IdleLaneType DEF TypeInv, TypeOK, ConnType,
          EndElsewhere, AttachAt, NoConn, Conns, OpenAt, live
    <2> QED BY <1>t, <1>f, <2>1, <2>2, OwnedAfter
  <1>33. ASSUME Reconcile PROVE ConnectionsAreOwned'
    BY <1>33, <1>0 DEF Reconcile, durable, live, bounds, history
  <1>34. ASSUME Retire PROVE ConnectionsAreOwned'
    <2>1. \A u \in Users : players'[u] \in {players[u], NoConn}
      BY <1>34 DEF TypeInv, TypeOK, Retire, End
    <2>2. \A d \in Conns :
            /\ conn'[d].user = conn[d].user
            /\ IsCurrent(d) => conn'[d].at \notin AttachAt \cup {"unused", "replaced"}
            /\ conn'[d].at \in {"open", "leaving"} =>
                 conn[d].at \in {"open", "leaving"} /\ players'[conn[d].user] = players[conn[d].user]
            /\ d = lane'.for => conn'[d].at = "recovering"
      BY <1>34, <1>t, <1>c, EndMoves, IdleLaneType DEF TypeInv, TypeOK, ConnType,
          Retire, AttachAt, NoConn, Conns, OpenAt, live
    <2> QED BY <1>t, <1>f, <2>1, <2>2, OwnedAfter
  <1>35. ASSUME Crash PROVE ConnectionsAreOwned'
    <2>1. \A u \in Users : players'[u] \in {players[u], NoConn}
      BY <1>35 DEF TypeInv, TypeOK, Crash, FreshController
    <2>2. \A d \in Conns :
            /\ conn'[d].user = conn[d].user
            /\ IsCurrent(d) => conn'[d].at \notin AttachAt \cup {"unused", "replaced"}
            /\ conn'[d].at \in {"open", "leaving"} =>
                 conn[d].at \in {"open", "leaving"} /\ players'[conn[d].user] = players[conn[d].user]
            /\ d = lane'.for => conn'[d].at = "recovering"
      BY <1>35, <1>t, <1>c, LostConnections, IdleLaneType DEF TypeInv, TypeOK,
          ConnType, Crash, AttachAt, NoConn, Conns, OpenAt, FreshController,
          live
    <2> QED BY <1>t, <1>f, <2>1, <2>2, OwnedAfter
  <1>36. ASSUME Renew PROVE ConnectionsAreOwned'
    <2>1. \A u \in Users : players'[u] \in {players[u], NoConn}
      BY <1>36 DEF TypeInv, TypeOK, Renew, FreshController
    <2>0. lane'.for = NoConn
      BY <1>36, IdleLaneType DEF Renew, FreshController
    <2>2. \A d \in Conns :
            /\ conn'[d].user = conn[d].user
            /\ IsCurrent(d) => conn'[d].at \notin AttachAt \cup {"unused", "replaced"}
            /\ conn'[d].at \in {"open", "leaving"} =>
                 conn[d].at \in {"open", "leaving"} /\ players'[conn[d].user] = players[conn[d].user]
            /\ d = lane'.for => conn'[d].at = "recovering"
      BY <1>36, <2>0, <2>1, <1>c, LostConnections, IdleLaneType DEF TypeInv, TypeOK,
          ConnType, Renew, AttachAt, NoConn, Conns, OpenAt, LaneAt
    <2> QED BY <1>t, <1>f, <2>1, <2>2, OwnedAfter
  <1>37. ASSUME UNCHANGED vars PROVE ConnectionsAreOwned'
    BY <1>37, <1>0 DEF vars, durable, live, bounds, history
  <1> QED BY <1>1, <1>2, <1>3, <1>4, <1>5, <1>6, <1>7, <1>8, <1>9, <1>10,
        <1>11, <1>12, <1>13, <1>14, <1>15, <1>16, <1>17, <1>18, <1>19, <1>20,
        <1>21, <1>22, <1>23, <1>24, <1>25, <1>26, <1>27, <1>28, <1>29, <1>30,
        <1>31, <1>32, <1>33, <1>34, <1>35, <1>36, <1>37
        DEF Next, PlayerStep, AttachStep, LaneStep

\* The lobby stays as connected as it was while only connections move.
LEMMA LobbyFrame ==
  ASSUME TypeInv, ConnectionsAreOwned, LobbyIsConnected,
         UNCHANGED <<players, lobby>>, slipped \subseteq slipped',
         phase' = phase \/ (phase = "lobby" /\ phase' = "starting"),
         \A d \in Conns : IsCurrent(d) =>
           /\ conn'[d].at = "closing" => conn[d].at = "closing"
           /\ phase = "lobby" /\ conn[d].at \in OpenAt => conn'[d].at \in OpenAt \/ d \in slipped'
  PROVE  LobbyIsConnected'
  <1> SUFFICES ASSUME phase' \in {"lobby", "starting"} PROVE LobbyIsConnected'
    BY DEF LobbyIsConnected
  <1>1. /\ lobby = {u \in Users : players[u] # NoConn}
        /\ Cardinality(lobby) <= MaxPlayers
        /\ \A u \in lobby :
             /\ conn[players[u]].at # "closing"
             /\ phase = "lobby" => IsOpen(players[u]) \/ players[u] \in slipped
    BY DEF LobbyIsConnected
  <1>2. ASSUME NEW u \in lobby
        PROVE  /\ conn'[players[u]].at # "closing"
               /\ phase' = "lobby" => IsOpen(players[u])' \/ players[u] \in slipped'
    <2>1. players[u] \in Conns /\ players[u] # NoConn /\ IsCurrent(players[u])
      BY <1>1, <1>2 DEF TypeInv, TypeOK, IsCurrent
    <2> QED BY <1>1, <1>2, <2>1 DEF IsOpen
  <1> QED BY <1>1, <1>2 DEF LobbyIsConnected, IsOpen

\* A part of the lobby is no larger.
LEMMA LobbyShrinks ==
  ASSUME TypeInv, NEW keep \in SUBSET lobby
  PROVE  IsFiniteSet(keep) /\ Cardinality(keep) \in Nat /\ Cardinality(keep) <= Cardinality(lobby)
         /\ Cardinality(lobby) \in Nat
  <1>1. IsFiniteSet(lobby)
    BY FS_Subset, LiveSessionAssumption DEF LiveSessionAssumption, TypeInv, TypeOK
  <1> QED BY <1>1, FS_Subset, FS_CardinalityType

\* Every step keeps the lobby who is connected.
LEMMA LobbyStep ==
  TypeInv /\ LaneInv /\ ConnectionsAreOwned /\ LobbyIsConnected /\ [Next]_vars => LobbyIsConnected'
  <1> SUFFICES ASSUME TypeInv, LaneInv, ConnectionsAreOwned, LobbyIsConnected, [Next]_vars PROVE LobbyIsConnected'
    OBVIOUS
  <1>c. \A d \in Conns :
          /\ IsCurrent(d) => /\ players[conn[d].user] = d /\ conn[d].user \in Users
                             /\ conn[d].at \notin AttachAt \cup {"unused", "replaced"}
          /\ conn[d].at \in {"open", "leaving"} => IsCurrent(d)
          /\ lane.for = d => conn[d].at = "recovering" /\ ~IsCurrent(d)
    BY CurrentIsOwned
  <1>0. ASSUME UNCHANGED <<phase, lobby, players, conn, slipped>> PROVE LobbyIsConnected'
    BY <1>0 DEF LobbyIsConnected, IsOpen
  <1>1. ASSUME NEW c \in Conns, NEW u \in Users, Connect(c, u) PROVE LobbyIsConnected'
    <2>1. UNCHANGED <<players, lobby, slipped, phase>> /\ conn[c].at = "unused"
      BY <1>1 DEF Connect, live, history
    <2>2. \A d \in Conns : d # c => conn'[d] = conn[d]
      BY <1>1 DEF TypeInv, TypeOK, Connect
    <2>3. ~IsCurrent(c)
      BY <1>c, <2>1
    <2> QED BY <2>1, <2>2, <2>3, LobbyFrame
  <1>2. ASSUME NEW c \in Conns, CheckEligibility(c) PROVE LobbyIsConnected'
    <2>1. UNCHANGED <<players, lobby>> /\ slipped \subseteq slipped' /\ (phase' = phase \/ (phase = "lobby" /\ phase' = "starting"))
      BY <1>2 DEF CheckEligibility, live, history
    <2>2. \A d \in Conns : IsCurrent(d) =>
            /\ conn'[d].at = "closing" => conn[d].at = "closing"
            /\ phase = "lobby" /\ conn[d].at \in OpenAt => conn'[d].at \in OpenAt \/ d \in slipped'
      BY <1>2, <1>c, MoveToMoves DEF TypeInv, TypeOK, ConnType,
          CheckEligibility, OpenAt, AttachAt
    <2> QED BY <2>1, <2>2, LobbyFrame
  <1>3. ASSUME NEW c \in Conns, JoinLobby(c) PROVE LobbyIsConnected'
    <2>1. CASE MoveTo(c, "closed") /\ UNCHANGED <<players, lobby>>
      <3>1. UNCHANGED <<players, lobby, phase, slipped>>
        BY <1>3, <2>1 DEF JoinLobby, live, history
      <3>2. \A d \in Conns : IsCurrent(d) => conn'[d].at = conn[d].at
        BY <1>3, <2>1, <1>c, MoveToMoves DEF TypeInv, TypeOK, ConnType, JoinLobby, AttachAt
      <3> QED BY <3>1, <3>2, LobbyFrame
    <2>2. CASE /\ phase = "lobby" /\ (players[conn[c].user] # NoConn \/ Cardinality(lobby) < MaxPlayers)
               /\ MoveReplacing(c, "open", players[conn[c].user])
               /\ players' = [players EXCEPT ![conn[c].user] = c] /\ lobby' = lobby \cup {conn[c].user}
      <3>1. PICK u \in Users : u = conn[c].user
        BY <1>3 DEF TypeInv, UsersConnect, JoinLobby
      <3>2. /\ lobby = {v \in Users : players[v] # NoConn}
            /\ Cardinality(lobby) <= MaxPlayers
            /\ \A v \in lobby : /\ conn[players[v]].at # "closing"
                                /\ IsOpen(players[v]) \/ players[v] \in slipped
        BY <2>2 DEF LobbyIsConnected
      <3>3. lobby' = {v \in Users : players'[v] # NoConn}
        BY <2>2, <3>1, <3>2 DEF TypeInv, TypeOK, NoConn, Conns
      <3>4. Cardinality(lobby') <= MaxPlayers
        <4>1. CASE u \in lobby
          BY <2>2, <3>1, <3>2, <4>1
        <4>2. CASE u \notin lobby
          <5>1. IsFiniteSet(lobby) /\ Cardinality(lobby) \in Nat
            BY LobbyShrinks
          <5>2. Cardinality(lobby \cup {u}) = Cardinality(lobby) + 1
            BY <4>2, <5>1, FS_AddElement
          <5>3. Cardinality(lobby) < MaxPlayers
            BY <2>2, <3>1, <3>2, <4>2
          <5> QED BY <2>2, <3>1, <5>1, <5>2, <5>3, LiveSessionAssumption DEF LiveSessionAssumption
        <4> QED BY <4>1, <4>2
      <3>5. ASSUME NEW v \in lobby'
            PROVE  conn'[players'[v]].at # "closing" /\ ((players'[v] # NoConn /\ conn'[players'[v]].at \in OpenAt) \/ players'[v] \in slipped')
        <4>1. CASE v = u
          BY <2>2, <3>1, <4>1, MoveReplacingMoves DEF TypeInv, TypeOK, ConnType, IsOpen, OpenAt, Conns, NoConn
        <4>2. CASE v # u
          <5>1. v \in lobby /\ players'[v] = players[v] /\ players[v] \in Conns /\ players[v] # NoConn
            BY <2>2, <3>1, <3>2, <3>5, <4>2 DEF TypeInv, TypeOK
          <5>2. players[v] # players[u] /\ players[v] # c
            <6>1. conn[players[v]].user = v
              BY <5>1, <3>2 DEF ConnectionsAreOwned
            <6>2. players[u] # NoConn => conn[players[u]].user = u
              BY DEF ConnectionsAreOwned
            <6> QED BY <3>1, <4>2, <5>1, <6>1, <6>2
          <5>3. conn'[players[v]].at = conn[players[v]].at
            BY <2>2, <3>1, <5>1, <5>2, MoveReplacingMoves DEF TypeInv, TypeOK, ConnType
          <5> QED BY <1>3, <3>2, <5>1, <5>3 DEF IsOpen, JoinLobby, history
        <4> QED BY <4>1, <4>2
      <3> QED BY <1>3, <3>3, <3>4, <3>5 DEF LobbyIsConnected, IsOpen
    <2> QED BY <1>3, <2>1, <2>2 DEF JoinLobby
  <1>4. ASSUME NEW c \in Conns, RecoveryNotNeeded(c) PROVE LobbyIsConnected'
    <2>1. UNCHANGED <<players, lobby>> /\ slipped \subseteq slipped' /\ (phase' = phase \/ (phase = "lobby" /\ phase' = "starting"))
      BY <1>4 DEF RecoveryNotNeeded, live, history
    <2>2. \A d \in Conns : IsCurrent(d) =>
            /\ conn'[d].at = "closing" => conn[d].at = "closing"
            /\ phase = "lobby" /\ conn[d].at \in OpenAt => conn'[d].at \in OpenAt \/ d \in slipped'
      BY <1>4, <1>c, MoveToMoves DEF TypeInv, TypeOK, ConnType,
          RecoveryNotNeeded, OpenAt, AttachAt
    <2> QED BY <2>1, <2>2, LobbyFrame
  <1>5. ASSUME NEW c \in Conns, RequestRecovery(c) PROVE LobbyIsConnected'
    <2>1. CASE Freeze /\ UNCHANGED conn
      <3>1. phase = "lobby" /\ phase' = "starting" /\ UNCHANGED <<players, lobby, slipped>>
        BY <1>5, <2>1 DEF RequestRecovery, Freeze, history
      <3> QED BY <2>1, <3>1, LobbyFrame
    <2>2. CASE UNCHANGED live /\ MoveTo(c, "closed")
      <3>1. UNCHANGED <<players, lobby, phase, slipped>>
        BY <1>5, <2>2 DEF RequestRecovery, live, history
      <3>2. \A d \in Conns : IsCurrent(d) => conn'[d].at = conn[d].at
        BY <1>5, <2>2, <1>c, MoveToMoves DEF TypeInv, TypeOK, ConnType, RequestRecovery, AttachAt
      <3> QED BY <3>1, <3>2, LobbyFrame
    <2> QED BY <1>5, <2>1, <2>2 DEF RequestRecovery
  <1>6. ASSUME NEW c \in Conns, Reattach(c) PROVE LobbyIsConnected'
    <2>1. CASE UNCHANGED live /\ \E at \in {"checking", "closed", "asking"} : MoveTo(c, at)
      <3>0. PICK at \in {"checking", "closed", "asking"} : MoveTo(c, at)
        BY <2>1
      <3>1. UNCHANGED <<players, lobby, phase, slipped>>
        BY <1>6, <2>1 DEF Reattach, live, history
      <3>2. \A d \in Conns : IsCurrent(d) => conn'[d].at = conn[d].at
        BY <1>6, <3>0, <1>c, MoveToMoves DEF TypeInv, TypeOK, ConnType, Reattach, AttachAt
      <3> QED BY <3>1, <3>2, LobbyFrame
    <2>2. CASE phase = "running" /\ UNCHANGED phase
      BY <2>2 DEF LobbyIsConnected
    <2> QED BY <1>6, <2>1, <2>2 DEF Reattach, PlaysHere
  <1>7. ASSUME NEW c \in Conns, AskRejoin(c) PROVE LobbyIsConnected'
    <2>1. UNCHANGED <<players, lobby>> /\ slipped \subseteq slipped' /\ (phase' = phase \/ (phase = "lobby" /\ phase' = "starting"))
      BY <1>7 DEF AskRejoin
    <2>2. \A d \in Conns : IsCurrent(d) =>
            /\ conn'[d].at = "closing" => conn[d].at = "closing"
            /\ phase = "lobby" /\ conn[d].at \in OpenAt => conn'[d].at \in OpenAt \/ d \in slipped'
      BY <1>7, <1>c, MoveToMoves DEF TypeInv, TypeOK, ConnType, AskRejoin,
          OpenAt, AttachAt
    <2> QED BY <2>1, <2>2, LobbyFrame
  <1>8. ASSUME NEW c \in Conns, GiveUpRejoin(c) PROVE LobbyIsConnected'
    <2>1. UNCHANGED <<players, lobby>> /\ slipped \subseteq slipped' /\ (phase' = phase \/ (phase = "lobby" /\ phase' = "starting"))
      BY <1>8 DEF GiveUpRejoin, live, history
    <2>2. \A d \in Conns : IsCurrent(d) =>
            /\ conn'[d].at = "closing" => conn[d].at = "closing"
            /\ phase = "lobby" /\ conn[d].at \in OpenAt => conn'[d].at \in OpenAt \/ d \in slipped'
      BY <1>8, <1>c, MoveToMoves DEF TypeInv, TypeOK, ConnType, GiveUpRejoin,
          OpenAt, AttachAt
    <2> QED BY <2>1, <2>2, LobbyFrame
  <1>9. ASSUME NEW c \in Conns, Leave(c) PROVE LobbyIsConnected'
    <2>1. UNCHANGED <<players, lobby>> /\ slipped \subseteq slipped' /\ (phase' = phase \/ (phase = "lobby" /\ phase' = "starting"))
      BY <1>9 DEF Leave, live, history
    <2>2. \A d \in Conns : IsCurrent(d) =>
            /\ conn'[d].at = "closing" => conn[d].at = "closing"
            /\ phase = "lobby" /\ conn[d].at \in OpenAt => conn'[d].at \in OpenAt \/ d \in slipped'
      BY <1>9, <1>c, MoveToMoves DEF TypeInv, TypeOK, ConnType, Leave, OpenAt,
          AttachAt
    <2> QED BY <2>1, <2>2, LobbyFrame
  <1>10. ASSUME NEW c \in Conns, LeaveSettled(c) PROVE LobbyIsConnected'
    <2>1. CASE phase = "lobby"
      <3>1. LeaveLobby(c)
        BY <1>10, <2>1 DEF LeaveSettled
      <3>2. CASE ~IsCurrent(c)
        <4>1. UNCHANGED <<players, lobby, phase, slipped>>
          BY <1>10, <3>1, <3>2 DEF LeaveLobby, LeaveSettled, history
        <4>2. \A d \in Conns : IsCurrent(d) => conn'[d].at = conn[d].at
          BY <1>10, <3>2, MoveToMoves DEF TypeInv, TypeOK, ConnType, LeaveSettled
        <4> QED BY <4>1, <4>2, LobbyFrame
      <3>3. CASE IsCurrent(c)
        <4>1. PICK u \in Users : u = conn[c].user /\ players[u] = c
          BY <1>c, <3>3
        <4>2. /\ players' = [players EXCEPT ![u] = NoConn] /\ lobby' = lobby \ {u}
              /\ UNCHANGED <<phase, slipped>>
          BY <1>10, <3>1, <3>3, <4>1 DEF LeaveLobby, LeaveSettled, history
        <4>3. /\ lobby = {v \in Users : players[v] # NoConn}
              /\ Cardinality(lobby) <= MaxPlayers
              /\ \A v \in lobby : /\ conn[players[v]].at # "closing"
                                  /\ IsOpen(players[v]) \/ players[v] \in slipped
          BY <2>1 DEF LobbyIsConnected
        <4>4. lobby' = {v \in Users : players'[v] # NoConn}
          BY <4>2, <4>3 DEF TypeInv, TypeOK
        <4>5. Cardinality(lobby') <= MaxPlayers
          BY <4>2, <4>3, LobbyShrinks, LiveSessionAssumption DEF LiveSessionAssumption
        <4>6. ASSUME NEW v \in lobby'
              PROVE  conn'[players'[v]].at # "closing" /\ ((players'[v] # NoConn /\ conn'[players'[v]].at \in OpenAt) \/ players'[v] \in slipped')
          <5>1. v \in lobby /\ players'[v] = players[v] /\ players[v] \in Conns /\ players[v] # NoConn
            BY <4>2, <4>3, <4>6 DEF TypeInv, TypeOK
          <5>2. players[v] # c
            <6>1. conn[players[v]].user = v
              BY <4>3, <5>1 DEF ConnectionsAreOwned
            <6>2. v # u
              BY <4>2, <4>6
            <6> QED BY <4>1, <6>1, <6>2
          <5>3. conn'[players[v]].at = conn[players[v]].at
            BY <1>10, <5>1, <5>2, MoveToMoves DEF TypeInv, TypeOK, ConnType, LeaveSettled
          <5> QED BY <4>2, <4>3, <5>1, <5>3 DEF IsOpen
        <4> QED BY <4>2, <4>4, <4>5, <4>6 DEF LobbyIsConnected, IsOpen
      <3> QED BY <3>2, <3>3
    <2>2. CASE phase # "lobby"
      BY <1>10, <2>2 DEF LeaveSettled, LobbyIsConnected
    <2> QED BY <2>1, <2>2
  <1>11. ASSUME NEW c \in Conns, Disconnect(c) PROVE LobbyIsConnected'
    <2>1. CASE phase = "lobby"
      <3>1. LeaveLobby(c)
        BY <1>11, <2>1 DEF Disconnect
      <3>2. CASE ~IsCurrent(c)
        <4>1. UNCHANGED <<players, lobby, phase, slipped>>
          BY <1>11, <3>1, <3>2 DEF LeaveLobby, Disconnect, history
        <4>2. \A d \in Conns : IsCurrent(d) => conn'[d].at = conn[d].at
          BY <1>11, <3>2, MoveToMoves DEF TypeInv, TypeOK, ConnType, Disconnect
        <4> QED BY <4>1, <4>2, LobbyFrame
      <3>3. CASE IsCurrent(c)
        <4>1. PICK u \in Users : u = conn[c].user /\ players[u] = c
          BY <1>c, <3>3
        <4>2. /\ players' = [players EXCEPT ![u] = NoConn] /\ lobby' = lobby \ {u}
              /\ UNCHANGED <<phase, slipped>>
          BY <1>11, <3>1, <3>3, <4>1 DEF LeaveLobby, Disconnect, history
        <4>3. /\ lobby = {v \in Users : players[v] # NoConn}
              /\ Cardinality(lobby) <= MaxPlayers
              /\ \A v \in lobby : /\ conn[players[v]].at # "closing"
                                  /\ IsOpen(players[v]) \/ players[v] \in slipped
          BY <2>1 DEF LobbyIsConnected
        <4>4. lobby' = {v \in Users : players'[v] # NoConn}
          BY <4>2, <4>3 DEF TypeInv, TypeOK
        <4>5. Cardinality(lobby') <= MaxPlayers
          BY <4>2, <4>3, LobbyShrinks, LiveSessionAssumption DEF LiveSessionAssumption
        <4>6. ASSUME NEW v \in lobby'
              PROVE  conn'[players'[v]].at # "closing" /\ ((players'[v] # NoConn /\ conn'[players'[v]].at \in OpenAt) \/ players'[v] \in slipped')
          <5>1. v \in lobby /\ players'[v] = players[v] /\ players[v] \in Conns /\ players[v] # NoConn
            BY <4>2, <4>3, <4>6 DEF TypeInv, TypeOK
          <5>2. players[v] # c
            <6>1. conn[players[v]].user = v
              BY <4>3, <5>1 DEF ConnectionsAreOwned
            <6>2. v # u
              BY <4>2, <4>6
            <6> QED BY <4>1, <6>1, <6>2
          <5>3. conn'[players[v]].at = conn[players[v]].at
            BY <1>11, <5>1, <5>2, MoveToMoves DEF TypeInv, TypeOK, ConnType, Disconnect
          <5> QED BY <4>2, <4>3, <5>1, <5>3 DEF IsOpen
        <4> QED BY <4>2, <4>4, <4>5, <4>6 DEF LobbyIsConnected, IsOpen
      <3> QED BY <3>2, <3>3
    <2>2. CASE phase = "starting"
      <3>1. UNCHANGED <<players, lobby, phase, slipped>>
        BY <1>11, <2>2 DEF Disconnect, history
      <3>2. \A d \in Conns : conn'[d].at = "closing" => conn[d].at = "closing"
        BY <1>11, <2>2, MoveToMoves DEF TypeInv, TypeOK, ConnType, Disconnect
      <3> QED BY <2>2, <3>1, <3>2, LobbyFrame
    <2>3. CASE phase \notin {"lobby", "starting"}
      BY <1>11, <2>3 DEF Disconnect, LobbyIsConnected
    <2> QED BY <2>1, <2>2, <2>3
  <1>12. ASSUME NEW c \in Conns, EndConnection(c) PROVE LobbyIsConnected'
    <2>1. UNCHANGED <<players, lobby, phase>> /\ slipped \subseteq slipped'
      BY <1>12 DEF EndConnection, live
    <2>2. phase = "lobby" /\ IsCurrent(c) => conn[c].at # "closing"
      <3>1. phase = "lobby" /\ IsCurrent(c) => \E u \in lobby : players[u] = c
        BY DEF LobbyIsConnected, IsCurrent, Conns, NoConn
      <3> QED BY <3>1 DEF LobbyIsConnected
    <2>3. phase = "lobby" /\ conn[c].at = "closingFrozen" => c \in slipped'
      BY <1>12 DEF EndConnection
    <2>4. \A d \in Conns : IsCurrent(d) =>
            /\ conn'[d].at = "closing" => conn[d].at = "closing"
            /\ phase = "lobby" /\ conn[d].at \in OpenAt => conn'[d].at \in OpenAt \/ d \in slipped'
      BY <1>12, <2>2, <2>3, MoveToMoves DEF TypeInv, TypeOK, ConnType, EndConnection
    <2> QED BY <2>1, <2>4, LobbyFrame
  <1>13. ASSUME RequestStart PROVE LobbyIsConnected'
    <2>1. phase = "lobby" /\ phase' = "starting" /\ UNCHANGED <<players, lobby, conn, slipped>>
      BY <1>13 DEF RequestStart, Freeze, history
    <2> QED BY <2>1, LobbyFrame
  <1>14. ASSUME NEW expired \in SUBSET Users, TakeBoundary(expired) PROVE LobbyIsConnected'
    BY <1>14, <1>0 DEF TakeBoundary, durable, live, bounds, history
  <1>15. ASSUME CheckStart PROVE LobbyIsConnected'
    BY <1>15, <1>0 DEF CheckStart, durable, live, bounds, history
  <1>16. ASSUME RunScript PROVE LobbyIsConnected'
    BY <1>16, <1>0 DEF RunScript, durable, live, bounds, history
  <1>17. ASSUME CommitStart PROVE LobbyIsConnected'
    BY <1>17, <1>0 DEF CommitStart, durable, live, bounds, history
  <1>18. ASSUME CheckLifetime PROVE LobbyIsConnected'
    BY <1>18, <1>0 DEF CheckLifetime, durable, live, bounds, history
  <1>19. ASSUME LoadRunning PROVE LobbyIsConnected'
    BY <1>19, <1>0 DEF LoadRunning, durable, live, bounds, history
  <1>20. ASSUME CompleteStart PROVE LobbyIsConnected'
    <2>1. phase \in {"starting", "ended"}
      BY <1>20 DEF CompleteStart, LaneAt, LaneInv, AttemptsFreeze, StartAt
    <2>2. phase' \in {"running", "ended"}
      BY <1>20, <2>1 DEF CompleteStart, live
    <2> QED BY <2>2 DEF LobbyIsConnected
  <1>21. ASSUME CancelStart PROVE LobbyIsConnected'
    <2>1. CASE phase # "starting"
      <3>1. phase = "ended"
        BY <1>21, <2>1 DEF CancelStart, LaneAt, LaneInv, AttemptsFreeze, StartAt
      <3> QED BY <1>21, <3>1 DEF CancelStart, live, LobbyIsConnected
    <2>2. CASE phase = "starting"
      <3>1. /\ lobby = {v \in Users : players[v] # NoConn}
            /\ Cardinality(lobby) <= MaxPlayers
            /\ \A v \in lobby : conn[players[v]].at # "closing"
        BY <2>2 DEF LobbyIsConnected
      <3>2. /\ lobby' = StillConnected
            /\ players' = [u \in Users |-> IF u \in lobby \ StillConnected THEN NoConn ELSE players[u]]
        BY <1>21, <2>2 DEF CancelStart
      <3>3. lobby' = {v \in Users : players'[v] # NoConn}
        BY <3>1, <3>2 DEF StillConnected
      <3>4. Cardinality(lobby') <= MaxPlayers
        BY <3>1, <3>2, LobbyShrinks, LiveSessionAssumption DEF StillConnected, LiveSessionAssumption
      <3>5. ASSUME NEW v \in lobby' PROVE conn'[players'[v]].at # "closing" /\ players'[v] # NoConn /\ conn'[players'[v]].at \in OpenAt
        <4>1. v \in lobby /\ players'[v] = players[v] /\ IsOpen(players[v]) /\ players[v] \in Conns
          BY <3>1, <3>2, <3>5 DEF StillConnected, TypeInv, TypeOK
        <4>2. players[v] # lane.for
          BY <1>c, <3>1, <4>1 DEF IsCurrent
        <4>3. conn'[players[v]].at = conn[players[v]].at
          BY <1>21, <4>1, <4>2, CancelStartMoves
        <4> QED BY <3>1, <4>1, <4>3 DEF IsOpen
      <3> QED BY <3>3, <3>4, <3>5 DEF LobbyIsConnected, IsOpen
    <2> QED BY <2>1, <2>2
  <1>22. ASSUME NEW executed \in 0..Len(lane.work), NEW accepted \in SUBSET Users,
             NEW finished \in BOOLEAN,
             CommitBoundary(executed, accepted, finished) PROVE LobbyIsConnected'
    <2>1. CASE phase # "running"
      BY <1>22, <1>0, <2>1 DEF CommitBoundary, live, history
    <2>2. CASE phase = "running"
      BY <1>22, <2>2 DEF CommitBoundary, LobbyIsConnected
    <2> QED BY <2>1, <2>2
  <1>23. ASSUME FailBoundary PROVE LobbyIsConnected'
    BY <1>23, <1>0 DEF FailBoundary, durable, live, bounds, history
  <1>24. ASSUME OfferCheckpoint PROVE LobbyIsConnected'
    BY <1>24, <1>0 DEF OfferCheckpoint, durable, live, bounds, history
  <1>25. ASSUME EndIfAbandoned PROVE LobbyIsConnected'
    BY <1>25, <1>0 DEF EndIfAbandoned, durable, live, bounds, history
  <1>26. ASSUME FinishGame PROVE LobbyIsConnected'
    BY <1>26, <1>0 DEF FinishGame, durable, live, bounds, history
  <1>27. ASSUME EndDurably PROVE LobbyIsConnected'
    BY <1>27, <1>0 DEF EndDurably, durable, live, bounds, history
  <1>28. ASSUME TellEnd PROVE LobbyIsConnected'
    <2>1. phase' = "ended"
      BY <1>28 DEF TellEnd, End, live
    <2> QED BY <2>1 DEF LobbyIsConnected
  <1>29. ASSUME EndFailed PROVE LobbyIsConnected'
    <2>1. CASE UNCHANGED <<live, conn>>
      BY <1>29, <1>0, <2>1 DEF EndFailed, live, history
    <2>2. CASE End("closed", {})
      BY <2>2 DEF End, LobbyIsConnected
    <2> QED BY <1>29, <2>1, <2>2, EndFailedEnds
  <1>30. ASSUME WriteCheckpoint PROVE LobbyIsConnected'
    BY <1>30, <1>0 DEF WriteCheckpoint, durable, live, bounds, history
  <1>31. ASSUME NEW cause \in AskedCauses, AskEnd(cause) PROVE LobbyIsConnected'
    BY <1>31, <1>0 DEF AskEnd, durable, live, bounds, history
  <1>32. ASSUME EndElsewhere PROVE LobbyIsConnected'
    <2>1. phase' = "ended"
      BY <1>32 DEF EndElsewhere, End, live
    <2> QED BY <2>1 DEF LobbyIsConnected
  <1>33. ASSUME Reconcile PROVE LobbyIsConnected'
    BY <1>33, <1>0 DEF Reconcile, durable, live, bounds, history
  <1>34. ASSUME Retire PROVE LobbyIsConnected'
    <2>1. phase' = "ended"
      BY <1>34 DEF Retire, End, live
    <2> QED BY <2>1 DEF LobbyIsConnected
  <1>35. ASSUME Crash PROVE LobbyIsConnected'
    <2>1. lobby' = {} /\ players' = [u \in Users |-> NoConn]
      BY <1>35 DEF Crash, FreshController
    <2>2. Cardinality(lobby') = 0
      BY <2>1, FS_EmptySet
    <2> QED BY <2>1, <2>2, LiveSessionAssumption DEF LiveSessionAssumption, LobbyIsConnected
  <1>36. ASSUME Renew PROVE LobbyIsConnected'
    <2>1. lobby' = {} /\ players' = [u \in Users |-> NoConn]
      BY <1>36 DEF Renew, FreshController
    <2>2. Cardinality(lobby') = 0
      BY <2>1, FS_EmptySet
    <2> QED BY <2>1, <2>2, LiveSessionAssumption DEF LiveSessionAssumption, LobbyIsConnected
  <1>37. ASSUME UNCHANGED vars PROVE LobbyIsConnected'
    BY <1>37, <1>0 DEF vars, durable, live, bounds, history
  <1> QED BY <1>1, <1>2, <1>3, <1>4, <1>5, <1>6, <1>7, <1>8, <1>9, <1>10,
        <1>11, <1>12, <1>13, <1>14, <1>15, <1>16, <1>17, <1>18, <1>19, <1>20,
        <1>21, <1>22, <1>23, <1>24, <1>25, <1>26, <1>27, <1>28, <1>29, <1>30,
        <1>31, <1>32, <1>33, <1>34, <1>35, <1>36, <1>37
        DEF Next, PlayerStep, AttachStep, LaneStep

\* The database stays as committed as it was while nothing new starts.
LEMMA DurableFrame ==
  ASSUME DurableIsCommitted, UNCHANGED db,
         lane'.at = "completing" => lane.at = "completing" /\ lane'.roster = lane.roster,
         phase' \in {"running", "finishing"} =>
           phase \in {"running", "finishing"} /\ participants' = participants,
         offered' # NoOffer => offered # NoOffer
  PROVE  DurableIsCommitted'
  BY DEF DurableIsCommitted, Committed, LaneAt

\* Every step keeps what the database committed the one played here.
LEMMA DurableStep == TypeInv /\ DurableIsCommitted /\ [Next]_vars => DurableIsCommitted'
  <1> SUFFICES ASSUME TypeInv, DurableIsCommitted, [Next]_vars PROVE DurableIsCommitted'
    OBVIOUS
  <1>0. ASSUME UNCHANGED <<db, lane, phase, participants, offered>> PROVE DurableIsCommitted'
    BY <1>0 DEF DurableIsCommitted, Committed, LaneAt
  <1>1. ASSUME NEW c \in Conns, NEW u \in Users, Connect(c, u) PROVE DurableIsCommitted'
    BY <1>1, <1>0 DEF Connect, durable, live, bounds, history
  <1>2. ASSUME NEW c \in Conns, CheckEligibility(c) PROVE DurableIsCommitted'
    BY <1>2, <1>0 DEF CheckEligibility, durable, live, bounds, history
  <1>3. ASSUME NEW c \in Conns, JoinLobby(c) PROVE DurableIsCommitted'
    BY <1>3, <1>0 DEF JoinLobby, durable, live, bounds, history
  <1>4. ASSUME NEW c \in Conns, RecoveryNotNeeded(c) PROVE DurableIsCommitted'
    BY <1>4, <1>0 DEF RecoveryNotNeeded, durable, live, bounds, history
  <1>5. ASSUME NEW c \in Conns, RequestRecovery(c) PROVE DurableIsCommitted'
    <2>1. lane'.at # "completing"
      BY <1>5, IdleLaneType DEF NoConn, Conns, TypeInv, TypeOK, Lane, RequestRecovery, LaneAt
    <2>2. /\ UNCHANGED db
          /\ phase' \in {"running", "finishing"} =>
               phase \in {"running", "finishing"} /\ participants' = participants
          /\ offered' # NoOffer => offered # NoOffer
      BY <1>5 DEF RequestRecovery, Freeze, live, durable
    <2> QED BY <2>1, <2>2, DurableFrame
  <1>6. ASSUME NEW c \in Conns, Reattach(c) PROVE DurableIsCommitted'
    BY <1>6, <1>0 DEF Reattach, durable, live, bounds, history
  <1>7. ASSUME NEW c \in Conns, AskRejoin(c) PROVE DurableIsCommitted'
    BY <1>7, <1>0 DEF AskRejoin, durable, live, bounds, history
  <1>8. ASSUME NEW c \in Conns, GiveUpRejoin(c) PROVE DurableIsCommitted'
    BY <1>8, <1>0 DEF GiveUpRejoin, durable, live, bounds, history
  <1>9. ASSUME NEW c \in Conns, Leave(c) PROVE DurableIsCommitted'
    BY <1>9, <1>0 DEF Leave, durable, live, bounds, history
  <1>10. ASSUME NEW c \in Conns, LeaveSettled(c) PROVE DurableIsCommitted'
    BY <1>10, <1>0 DEF LeaveSettled, LeaveLobby, durable, live, bounds,
          history
  <1>11. ASSUME NEW c \in Conns, Disconnect(c) PROVE DurableIsCommitted'
    BY <1>11, <1>0 DEF Disconnect, LeaveLobby, durable, live, bounds, history
  <1>12. ASSUME NEW c \in Conns, EndConnection(c) PROVE DurableIsCommitted'
    BY <1>12, <1>0 DEF EndConnection, durable, live, bounds, history
  <1>13. ASSUME RequestStart PROVE DurableIsCommitted'
    <2>1. lane'.at # "completing"
      BY <1>13, IdleLaneType DEF TypeInv, TypeOK, Lane, RequestStart, LaneAt
    <2>2. /\ UNCHANGED db
          /\ phase' \in {"running", "finishing"} =>
               phase \in {"running", "finishing"} /\ participants' = participants
          /\ offered' # NoOffer => offered # NoOffer
      BY <1>13 DEF RequestStart, Freeze, live, durable
    <2> QED BY <2>1, <2>2, DurableFrame
  <1>14. ASSUME NEW expired \in SUBSET Users, TakeBoundary(expired) PROVE DurableIsCommitted'
    <2>1. UNCHANGED <<db, phase, participants, offered>> /\ lane'.at # "completing"
      BY <1>14, BoundaryTaken, IdleLaneType DEF TypeInv, TakeBoundary, Lane, durable
    <2> QED BY <2>1 DEF DurableIsCommitted, Committed, LaneAt
  <1>15. ASSUME CheckStart PROVE DurableIsCommitted'
    <2>1. lane'.at # "completing"
      BY <1>15, IdleLaneType DEF TypeInv, TypeOK, Lane, CheckStart, LaneAt,
          LaneTo
    <2>2. /\ UNCHANGED db
          /\ phase' \in {"running", "finishing"} =>
               phase \in {"running", "finishing"} /\ participants' = participants
          /\ offered' # NoOffer => offered # NoOffer
      BY <1>15 DEF CheckStart, live, durable
    <2> QED BY <2>1, <2>2, DurableFrame
  <1>16. ASSUME RunScript PROVE DurableIsCommitted'
    <2>1. lane'.at # "completing"
      BY <1>16, IdleLaneType DEF TypeInv, TypeOK, Lane, RunScript, LaneAt,
          LaneTo, LaneEnds
    <2>2. /\ UNCHANGED db
          /\ phase' \in {"running", "finishing"} =>
               phase \in {"running", "finishing"} /\ participants' = participants
          /\ offered' # NoOffer => offered # NoOffer
      BY <1>16 DEF RunScript, live, durable
    <2> QED BY <2>1, <2>2, DurableFrame
  <1>17. ASSUME CommitStart PROVE DurableIsCommitted'
    <2>1. CASE UNCHANGED db
      <3>1. lane'.at # "completing"
        BY <1>17, <2>1 DEF TypeInv, TypeOK, Lane, CommitStart, LaneTo, Running, Lobby
      <3> QED BY <1>17, <2>1, <3>1, DurableFrame DEF CommitStart, live
    <2>2. CASE db.status = Lobby /\ db' = [db EXCEPT !.status = Running, !.roster = lane.roster,
                                                 !.gone = {}, !.disconnected = {}]
      <3>1. lane'.roster = lane.roster
        BY <1>17 DEF TypeInv, TypeOK, Lane, CommitStart, LaneTo
      <3>2. db'.status = Running /\ db'.cause = db.cause /\ db'.roster = lane.roster
        BY <2>2 DEF TypeInv, TypeOK
      <3>3. db.cause = NoCause /\ phase \notin {"running", "finishing"}
        BY <2>2 DEF DurableIsCommitted, Committed, LiveStatus
      <3> QED BY <1>17, <3>1, <3>2, <3>3 DEF CommitStart, live, DurableIsCommitted, Committed, LaneAt,
              LiveStatus, Lobby, Running, NoCause
    <2> QED BY <1>17, <2>1, <2>2 DEF CommitStart
  <1>18. ASSUME CheckLifetime PROVE DurableIsCommitted'
    <2>1. lane'.at # "completing"
      BY <1>18, IdleLaneType DEF TypeInv, TypeOK, Lane, CheckLifetime, LaneAt,
          LaneTo, LaneEnds
    <2>2. /\ UNCHANGED db
          /\ phase' \in {"running", "finishing"} =>
               phase \in {"running", "finishing"} /\ participants' = participants
          /\ offered' # NoOffer => offered # NoOffer
      BY <1>18 DEF CheckLifetime, live, durable
    <2> QED BY <2>1, <2>2, DurableFrame
  <1>19. ASSUME LoadRunning PROVE DurableIsCommitted'
    <2>1. UNCHANGED <<db, phase, participants, offered>>
      BY <1>19 DEF LoadRunning, durable
    <2>2. \/ lane'.at # "completing"
          \/ db.status = Running /\ lane'.roster = db.roster
      BY <1>19 DEF TypeInv, TypeOK, Lane, LoadRunning, LaneTo, CommittedRoster
    <2> QED BY <2>1, <2>2 DEF DurableIsCommitted, Committed, LaneAt, LiveStatus, Lobby, Running, NoCause
  <1>20. ASSUME CompleteStart PROVE DurableIsCommitted'
    <2>1. lane'.at # "completing"
      BY <1>20, IdleLaneType DEF CompleteStart, LaneIdle
    <2>2. /\ UNCHANGED <<db, offered>>
          /\ phase' \in {"running", "finishing"} =>
               \/ participants' = lane.roster
               \/ phase \in {"running", "finishing"} /\ participants' = participants
      BY <1>20 DEF CompleteStart, live, durable
    <2>3. Committed(lane.roster)
      BY <1>20 DEF CompleteStart, DurableIsCommitted
    <2> QED BY <2>1, <2>2, <2>3 DEF DurableIsCommitted, Committed, LaneAt
  <1>21. ASSUME CancelStart PROVE DurableIsCommitted'
    <2>1. lane'.at # "completing"
      BY <1>21, IdleLaneType DEF TypeInv, TypeOK, Lane, CancelStart, LaneAt,
          LaneIdle
    <2>2. /\ UNCHANGED db
          /\ phase' \in {"running", "finishing"} =>
               phase \in {"running", "finishing"} /\ participants' = participants
          /\ offered' # NoOffer => offered # NoOffer
      BY <1>21 DEF CancelStart, live, durable
    <2> QED BY <2>1, <2>2, DurableFrame
  <1>22. ASSUME NEW executed \in 0..Len(lane.work), NEW accepted \in SUBSET Users,
             NEW finished \in BOOLEAN,
             CommitBoundary(executed, accepted, finished) PROVE DurableIsCommitted'
    <2>1. lane' \in {IdleLane, [IdleLane EXCEPT !.at = "ending", !.cause = "GAME_FINISHED"],
                   [IdleLane EXCEPT !.at = "committed"]}
      BY <1>22 DEF CommitBoundary, LaneIdle
    <2>2. lane'.at # "completing"
      BY <2>1, IdleLaneType DEF Lane
    <2>3. UNCHANGED <<db, participants, offered>> /\ phase' \in {phase, "finishing"} /\ (phase' = phase \/ phase = "running")
      BY <1>22 DEF CommitBoundary, durable, live
    <2> QED BY <2>2, <2>3 DEF DurableIsCommitted, Committed, LaneAt
  <1>23. ASSUME FailBoundary PROVE DurableIsCommitted'
    <2>1. lane'.at # "completing"
      BY <1>23, IdleLaneType DEF TypeInv, TypeOK, Lane, FailBoundary, LaneAt,
          LaneEnds
    <2>2. /\ UNCHANGED db
          /\ phase' \in {"running", "finishing"} =>
               phase \in {"running", "finishing"} /\ participants' = participants
          /\ offered' # NoOffer => offered # NoOffer
      BY <1>23 DEF FailBoundary, live, durable
    <2> QED BY <2>1, <2>2, DurableFrame
  <1>24. ASSUME OfferCheckpoint PROVE DurableIsCommitted'
    BY <1>24, IdleLaneType DEF TypeInv, TypeOK, Lane, DurableIsCommitted,
          Committed, OfferCheckpoint, LaneAt, LaneTo, live
  <1>25. ASSUME EndIfAbandoned PROVE DurableIsCommitted'
    <2>1. lane'.at # "completing"
      BY <1>25, IdleLaneType DEF TypeInv, TypeOK, Lane, EndIfAbandoned, LaneAt,
          Abandoned, LaneEnds, LaneIdle
    <2>2. /\ UNCHANGED db
          /\ phase' \in {"running", "finishing"} =>
               phase \in {"running", "finishing"} /\ participants' = participants
          /\ offered' # NoOffer => offered # NoOffer
      BY <1>25 DEF EndIfAbandoned, live, durable
    <2> QED BY <2>1, <2>2, DurableFrame
  <1>26. ASSUME FinishGame PROVE DurableIsCommitted'
    <2>1. lane'.at # "completing"
      BY <1>26, IdleLaneType DEF TypeInv, TypeOK, Lane, FinishGame, LaneAt
    <2>2. /\ UNCHANGED db
          /\ phase' \in {"running", "finishing"} =>
               phase \in {"running", "finishing"} /\ participants' = participants
          /\ offered' # NoOffer => offered # NoOffer
      BY <1>26 DEF FinishGame, live, durable
    <2> QED BY <2>1, <2>2, DurableFrame
  <1>27. ASSUME EndDurably PROVE DurableIsCommitted'
    <2>1. /\ UNCHANGED <<phase, participants, offered>> /\ LaneAt("ending")
          /\ lane'.at # "completing"
          /\ db' = db \/ (db.status \in EndingFrom(lane.cause) /\ db' = EndedFor(lane.cause))
      BY <1>27 DEF TypeInv, TypeOK, Lane, EndDurably, LaneTo, Answer, live
    <2>2. CASE db' = db
      BY <2>1, <2>2 DEF DurableIsCommitted, Committed, LaneAt
    <2>3. CASE db.status \in EndingFrom(lane.cause) /\ db' = EndedFor(lane.cause)
      <3>1. lane.cause \in EndCause \cup {NoCause}
        BY DEF TypeInv, TypeOK, Lane
      <3>2. db'.status \in TerminalStatus /\ db'.cause = lane.cause /\ db'.roster = db.roster
        BY <2>3, <3>1, EndingIsTerminal DEF EndedFor, TypeInv, TypeOK
      <3>3. lane.cause = "LOBBY_EXPIRED" => db.status = Lobby
        BY <2>3 DEF EndingFrom
      <3> QED BY <2>1, <3>2, <3>3 DEF DurableIsCommitted, Committed, LaneAt, TerminalStatus,
              LiveStatus, Lobby, Running, Finished, Cancelled, Expired, Aborted
    <2> QED BY <2>1, <2>2, <2>3
  <1>28. ASSUME TellEnd PROVE DurableIsCommitted'
    <2>1. lane'.at # "completing"
      BY <1>28, IdleLaneType DEF TypeInv, TypeOK, Lane, TellEnd, LaneAt, LaneIdle
    <2>2. /\ UNCHANGED db
          /\ phase' \in {"running", "finishing"} =>
               phase \in {"running", "finishing"} /\ participants' = participants
          /\ offered' # NoOffer => offered # NoOffer
      BY <1>28 DEF TellEnd, End, live, durable
    <2> QED BY <2>1, <2>2, DurableFrame
  <1>29. ASSUME EndFailed PROVE DurableIsCommitted'
    <2>1. lane'.at # "completing"
      BY <1>29, IdleLaneType DEF TypeInv, TypeOK, Lane, EndFailed, LaneAt,
          LaneTo, LaneIdle
    <2>2. /\ UNCHANGED db
          /\ phase' \in {"running", "finishing"} =>
               phase \in {"running", "finishing"} /\ participants' = participants
          /\ offered' # NoOffer => offered # NoOffer
      BY <1>29 DEF EndFailed, End, live, durable
    <2> QED BY <2>1, <2>2, DurableFrame
  <1>30. ASSUME WriteCheckpoint PROVE DurableIsCommitted'
    BY <1>30, IdleLaneType DEF TypeInv, TypeOK, Lane, DurableIsCommitted,
          Committed, WriteCheckpoint, Fault, live, LaneAt
  <1>31. ASSUME NEW cause \in AskedCauses, AskEnd(cause) PROVE DurableIsCommitted'
    <2>1. lane'.at # "completing"
      BY <1>31, IdleLaneType DEF TypeInv, TypeOK, Lane, AskEnd, LaneAt
    <2>2. /\ UNCHANGED db
          /\ phase' \in {"running", "finishing"} =>
               phase \in {"running", "finishing"} /\ participants' = participants
          /\ offered' # NoOffer => offered # NoOffer
      BY <1>31 DEF AskEnd, live, durable
    <2> QED BY <2>1, <2>2, DurableFrame
  <1>32. ASSUME EndElsewhere PROVE DurableIsCommitted'
    <2>1. lane' = lane
      BY <1>32, IdleLaneType DEF TypeInv, TypeOK, Lane, EndElsewhere, LaneAt
    <2>2. /\ UNCHANGED db
          /\ phase' \in {"running", "finishing"} =>
               phase \in {"running", "finishing"} /\ participants' = participants
          /\ offered' # NoOffer => offered # NoOffer
      BY <1>32 DEF EndElsewhere, End, live, durable
    <2> QED BY <2>1, <2>2, DurableFrame
  <1>33. ASSUME Reconcile PROVE DurableIsCommitted'
    <2>1. UNCHANGED <<phase, participants, offered, lane>>
      BY <1>33 DEF Reconcile, live
    <2>2. PICK cause \in EndCause : /\ cause = "LOBBY_EXPIRED" => db.status = Lobby
                                   /\ db' = EndedFor(cause)
      BY <1>33 DEF Reconcile, EndCause
    <2>3. db'.status \in TerminalStatus /\ db'.cause = cause /\ db'.roster = db.roster
      BY <2>2, EndingIsTerminal DEF EndedFor, TypeInv, TypeOK
    <2> QED BY <2>1, <2>2, <2>3 DEF DurableIsCommitted, Committed, LaneAt, TerminalStatus,
            LiveStatus, Lobby, Running, Finished, Cancelled, Expired, Aborted
  <1>34. ASSUME Retire PROVE DurableIsCommitted'
    <2>1. lane' = lane
      BY <1>34, IdleLaneType DEF TypeInv, TypeOK, Lane, Retire, LaneAt
    <2>2. /\ UNCHANGED db
          /\ phase' \in {"running", "finishing"} =>
               phase \in {"running", "finishing"} /\ participants' = participants
          /\ offered' # NoOffer => offered # NoOffer
      BY <1>34 DEF Retire, End, live, durable
    <2> QED BY <2>1, <2>2, DurableFrame
  <1>35. ASSUME Crash PROVE DurableIsCommitted'
    BY <1>35, IdleLaneType DEF TypeInv, TypeOK, Lane, DurableIsCommitted,
          Committed, Crash, FreshController, Fault, live, LaneAt
  <1>36. ASSUME Renew PROVE DurableIsCommitted'
    BY <1>36, IdleLaneType DEF TypeInv, TypeOK, Lane, DurableIsCommitted,
          Committed, Renew, FreshController, LaneAt, live
  <1>37. ASSUME UNCHANGED vars PROVE DurableIsCommitted'
    BY <1>37, <1>0 DEF vars, durable, live, bounds, history
  <1> QED BY <1>1, <1>2, <1>3, <1>4, <1>5, <1>6, <1>7, <1>8, <1>9, <1>10,
        <1>11, <1>12, <1>13, <1>14, <1>15, <1>16, <1>17, <1>18, <1>19, <1>20,
        <1>21, <1>22, <1>23, <1>24, <1>25, <1>26, <1>27, <1>28, <1>29, <1>30,
        <1>31, <1>32, <1>33, <1>34, <1>35, <1>36, <1>37
        DEF Next, PlayerStep, AttachStep, LaneStep

\* Every step keeps what is told of an end durable.
LEMMA EndsStep == TypeInv /\ EndsAreDurable /\ [Next]_vars => EndsAreDurable'
  <1> SUFFICES ASSUME TypeInv, EndsAreDurable, [Next]_vars PROVE EndsAreDurable'
    OBVIOUS
  <1>0. ASSUME UNCHANGED <<db, lane, conn>> PROVE EndsAreDurable'
    BY <1>0 DEF EndsAreDurable, LaneAt, ToldEndingsAreDurable
  <1>1. ASSUME NEW c \in Conns, NEW u \in Users, Connect(c, u) PROVE EndsAreDurable'
    <2>1. \A d \in Conns : conn'[d].at = "told" => conn[d].at = "told"
      BY <1>1 DEF PlaysHere, TypeInv, TypeOK, ConnType, Connect, OpenAt, AttachAt
    <2>2. UNCHANGED db /\ (LaneAt("telling")' => LaneAt("telling"))
      BY <1>1, IdleLaneType DEF TypeInv, TypeOK, Lane, Connect, durable, LaneAt
    <2> QED BY <2>1, <2>2 DEF EndsAreDurable, ToldEndingsAreDurable
  <1>2. ASSUME NEW c \in Conns, CheckEligibility(c) PROVE EndsAreDurable'
    <2>1. \A d \in Conns : conn'[d].at = "told" => conn[d].at = "told"
      BY <1>2, MoveToMoves DEF TypeInv, TypeOK, ConnType, CheckEligibility,
          OpenAt, AttachAt
    <2>2. UNCHANGED db /\ (LaneAt("telling")' => LaneAt("telling"))
      BY <1>2, IdleLaneType DEF TypeInv, TypeOK, Lane, CheckEligibility,
          durable, LaneAt
    <2> QED BY <2>1, <2>2 DEF EndsAreDurable, ToldEndingsAreDurable
  <1>3. ASSUME NEW c \in Conns, JoinLobby(c) PROVE EndsAreDurable'
    <2>1. \A d \in Conns : conn'[d].at = "told" => conn[d].at = "told"
      BY <1>3, MoveToMoves, MoveReplacingMoves DEF TypeInv, TypeOK, ConnType,
          JoinLobby, OpenAt, AttachAt
    <2>2. UNCHANGED db /\ (LaneAt("telling")' => LaneAt("telling"))
      BY <1>3, IdleLaneType DEF TypeInv, TypeOK, Lane, JoinLobby, durable,
          LaneAt
    <2> QED BY <2>1, <2>2 DEF EndsAreDurable, ToldEndingsAreDurable
  <1>4. ASSUME NEW c \in Conns, RecoveryNotNeeded(c) PROVE EndsAreDurable'
    <2>1. \A d \in Conns : conn'[d].at = "told" => conn[d].at = "told"
      BY <1>4, MoveToMoves DEF TypeInv, TypeOK, ConnType, RecoveryNotNeeded,
          OpenAt, AttachAt
    <2>2. UNCHANGED db /\ (LaneAt("telling")' => LaneAt("telling"))
      BY <1>4, IdleLaneType DEF TypeInv, TypeOK, Lane, RecoveryNotNeeded,
          durable, LaneAt
    <2> QED BY <2>1, <2>2 DEF EndsAreDurable, ToldEndingsAreDurable
  <1>5. ASSUME NEW c \in Conns, RequestRecovery(c) PROVE EndsAreDurable'
    <2>1. \A d \in Conns : conn'[d].at = "told" => conn[d].at = "told"
      BY <1>5, MoveToMoves DEF TypeInv, TypeOK, ConnType, RequestRecovery,
          OpenAt, AttachAt
    <2>2. UNCHANGED db /\ (LaneAt("telling")' => LaneAt("telling"))
      BY <1>5, IdleLaneType DEF TypeInv, TypeOK, Lane, RequestRecovery, Freeze,
          durable, LaneAt
    <2> QED BY <2>1, <2>2 DEF EndsAreDurable, ToldEndingsAreDurable
  <1>6. ASSUME NEW c \in Conns, Reattach(c) PROVE EndsAreDurable'
    <2>1. \A d \in Conns : conn'[d].at = "told" => conn[d].at = "told"
      BY <1>6, MoveToMoves, MoveReplacingMoves DEF TypeInv, TypeOK, ConnType,
          Reattach, OpenAt, AttachAt
    <2>2. UNCHANGED db /\ (LaneAt("telling")' => LaneAt("telling"))
      BY <1>6, IdleLaneType DEF TypeInv, TypeOK, Lane, Reattach, durable, LaneAt
    <2> QED BY <2>1, <2>2 DEF EndsAreDurable, ToldEndingsAreDurable
  <1>7. ASSUME NEW c \in Conns, AskRejoin(c) PROVE EndsAreDurable'
    <2>1. \A d \in Conns : conn'[d].at = "told" => conn[d].at = "told"
      BY <1>7, MoveToMoves DEF TypeInv, TypeOK, ConnType, AskRejoin, OpenAt,
          AttachAt
    <2>2. UNCHANGED db /\ (LaneAt("telling")' => LaneAt("telling"))
      BY <1>7, IdleLaneType DEF TypeInv, TypeOK, Lane, AskRejoin, durable,
          LaneAt
    <2> QED BY <2>1, <2>2 DEF EndsAreDurable, ToldEndingsAreDurable
  <1>8. ASSUME NEW c \in Conns, GiveUpRejoin(c) PROVE EndsAreDurable'
    <2>1. \A d \in Conns : conn'[d].at = "told" => conn[d].at = "told"
      BY <1>8, MoveToMoves DEF TypeInv, TypeOK, ConnType, GiveUpRejoin, OpenAt,
          AttachAt
    <2>2. UNCHANGED db /\ (LaneAt("telling")' => LaneAt("telling"))
      BY <1>8, IdleLaneType DEF TypeInv, TypeOK, Lane, GiveUpRejoin, durable,
          LaneAt
    <2> QED BY <2>1, <2>2 DEF EndsAreDurable, ToldEndingsAreDurable
  <1>9. ASSUME NEW c \in Conns, Leave(c) PROVE EndsAreDurable'
    <2>1. \A d \in Conns : conn'[d].at = "told" => conn[d].at = "told"
      BY <1>9, MoveToMoves DEF TypeInv, TypeOK, ConnType, Leave, OpenAt,
          AttachAt
    <2>2. UNCHANGED db /\ (LaneAt("telling")' => LaneAt("telling"))
      BY <1>9, IdleLaneType DEF TypeInv, TypeOK, Lane, Leave, durable, LaneAt
    <2> QED BY <2>1, <2>2 DEF EndsAreDurable, ToldEndingsAreDurable
  <1>10. ASSUME NEW c \in Conns, LeaveSettled(c) PROVE EndsAreDurable'
    <2>1. \A d \in Conns : conn'[d].at = "told" => conn[d].at = "told"
      BY <1>10, MoveToMoves DEF TypeInv, TypeOK, ConnType, LeaveSettled, OpenAt,
          AttachAt
    <2>2. UNCHANGED db /\ (LaneAt("telling")' => LaneAt("telling"))
      BY <1>10, IdleLaneType DEF TypeInv, TypeOK, Lane, LeaveSettled, durable,
          LaneAt
    <2> QED BY <2>1, <2>2 DEF EndsAreDurable, ToldEndingsAreDurable
  <1>11. ASSUME NEW c \in Conns, Disconnect(c) PROVE EndsAreDurable'
    <2>1. \A d \in Conns : conn'[d].at = "told" => conn[d].at = "told"
      BY <1>11, MoveToMoves DEF TypeInv, TypeOK, ConnType, Disconnect, OpenAt,
          AttachAt
    <2>2. UNCHANGED db /\ (LaneAt("telling")' => LaneAt("telling"))
      BY <1>11, IdleLaneType DEF TypeInv, TypeOK, Lane, Disconnect, durable,
          LaneAt
    <2> QED BY <2>1, <2>2 DEF EndsAreDurable, ToldEndingsAreDurable
  <1>12. ASSUME NEW c \in Conns, EndConnection(c) PROVE EndsAreDurable'
    <2>1. \A d \in Conns : conn'[d].at = "told" => conn[d].at = "told"
      BY <1>12, MoveToMoves DEF TypeInv, TypeOK, ConnType, EndConnection, OpenAt,
          AttachAt
    <2>2. UNCHANGED db /\ (LaneAt("telling")' => LaneAt("telling"))
      BY <1>12, IdleLaneType DEF TypeInv, TypeOK, Lane, EndConnection, durable,
          LaneAt
    <2> QED BY <2>1, <2>2 DEF EndsAreDurable, ToldEndingsAreDurable
  <1>13. ASSUME RequestStart PROVE EndsAreDurable'
    <2>1. UNCHANGED <<conn, db>> /\ (LaneAt("telling")' => LaneAt("telling"))
      BY <1>13, IdleLaneType DEF TypeInv, TypeOK, Lane, RequestStart, Freeze,
          durable, LaneAt
    <2> QED BY <2>1 DEF EndsAreDurable, ToldEndingsAreDurable
  <1>14. ASSUME NEW expired \in SUBSET Users, TakeBoundary(expired) PROVE EndsAreDurable'
    <2>1. UNCHANGED <<conn, db>> /\ ~LaneAt("telling")'
      BY <1>14, BoundaryTaken, IdleLaneType DEF TypeInv, TakeBoundary, Lane, LaneAt, durable
    <2> QED BY <2>1 DEF EndsAreDurable, ToldEndingsAreDurable
  <1>15. ASSUME CheckStart PROVE EndsAreDurable'
    <2>1. UNCHANGED <<conn, db>> /\ (LaneAt("telling")' => LaneAt("telling"))
      BY <1>15, IdleLaneType DEF TypeInv, TypeOK, Lane, CheckStart, LaneTo,
          Fault, durable, LaneAt
    <2> QED BY <2>1 DEF EndsAreDurable, ToldEndingsAreDurable
  <1>16. ASSUME RunScript PROVE EndsAreDurable'
    <2>1. UNCHANGED <<conn, db>> /\ (LaneAt("telling")' => LaneAt("telling"))
      BY <1>16, IdleLaneType DEF TypeInv, TypeOK, Lane, RunScript, LaneTo,
          LaneEnds, Fault, durable, LaneAt
    <2> QED BY <2>1 DEF EndsAreDurable, ToldEndingsAreDurable
  <1>17. ASSUME CommitStart PROVE EndsAreDurable'
    <2>1. UNCHANGED conn /\ lane'.at # "telling"
      BY <1>17 DEF TypeInv, TypeOK, Lane, CommitStart, LaneTo
    <2>2. db.status \in TerminalStatus => db' = db
      BY <1>17 DEF CommitStart, Lobby, TerminalStatus, Finished, Cancelled, Expired, Aborted
    <2> QED BY <2>1, <2>2 DEF EndsAreDurable, ToldEndingsAreDurable, LaneAt
  <1>18. ASSUME CheckLifetime PROVE EndsAreDurable'
    <2>1. UNCHANGED <<conn, db>> /\ (LaneAt("telling")' => LaneAt("telling"))
      BY <1>18, IdleLaneType DEF TypeInv, TypeOK, Lane, CheckLifetime, LaneTo,
          LaneEnds, Fault, durable, LaneAt
    <2> QED BY <2>1 DEF EndsAreDurable, ToldEndingsAreDurable
  <1>19. ASSUME LoadRunning PROVE EndsAreDurable'
    <2>1. UNCHANGED <<conn, db>> /\ (LaneAt("telling")' => LaneAt("telling"))
      BY <1>19, IdleLaneType DEF TypeInv, TypeOK, Lane, LoadRunning,
          CommittedRoster, LaneTo, Fault, durable, LaneAt
    <2> QED BY <2>1 DEF EndsAreDurable, ToldEndingsAreDurable
  <1>20. ASSUME CompleteStart PROVE EndsAreDurable'
    <2>1. \A d \in Conns : conn'[d].at = "told" => conn[d].at = "told"
      BY <1>20, CompleteStartMoves DEF TypeInv, TypeOK, ConnType, CompleteStart,
          OpenAt, AttachAt
    <2>2. UNCHANGED db /\ (LaneAt("telling")' => LaneAt("telling"))
      BY <1>20, IdleLaneType DEF TypeInv, TypeOK, Lane, CompleteStart, LaneIdle,
          durable, LaneAt
    <2> QED BY <2>1, <2>2 DEF EndsAreDurable, ToldEndingsAreDurable
  <1>21. ASSUME CancelStart PROVE EndsAreDurable'
    <2>1. \A d \in Conns : conn'[d].at = "told" => conn[d].at = "told"
      BY <1>21, CancelStartMoves DEF TypeInv, TypeOK, Lane,
          OpenAt, AttachAt
    <2>2. UNCHANGED db /\ (LaneAt("telling")' => LaneAt("telling"))
      BY <1>21, IdleLaneType DEF TypeInv, TypeOK, Lane, CancelStart, LaneIdle,
          durable, LaneAt
    <2> QED BY <2>1, <2>2 DEF EndsAreDurable, ToldEndingsAreDurable
  <1>22. ASSUME NEW executed \in 0..Len(lane.work), NEW accepted \in SUBSET Users,
             NEW finished \in BOOLEAN,
             CommitBoundary(executed, accepted, finished) PROVE EndsAreDurable'
    <2>1. \A d \in Conns : conn'[d].at = "told" => conn[d].at = "told"
      BY <1>22, CommitBoundaryMoves
    <2>2. UNCHANGED db /\ lane' \in {IdleLane, [IdleLane EXCEPT !.at = "ending", !.cause = "GAME_FINISHED"],
                                   [IdleLane EXCEPT !.at = "committed"]}
      BY <1>22 DEF CommitBoundary, LaneIdle, durable
    <2>3. ~LaneAt("telling")'
      BY <2>2, IdleLaneType DEF Lane, LaneAt
    <2> QED BY <2>1, <2>2, <2>3 DEF EndsAreDurable, ToldEndingsAreDurable
  <1>23. ASSUME FailBoundary PROVE EndsAreDurable'
    <2>1. UNCHANGED <<conn, db>> /\ (LaneAt("telling")' => LaneAt("telling"))
      BY <1>23, IdleLaneType DEF TypeInv, TypeOK, Lane, FailBoundary, LaneEnds,
          Fault, durable, LaneAt
    <2> QED BY <2>1 DEF EndsAreDurable, ToldEndingsAreDurable
  <1>24. ASSUME OfferCheckpoint PROVE EndsAreDurable'
    <2>1. UNCHANGED <<conn, db>> /\ (LaneAt("telling")' => LaneAt("telling"))
      BY <1>24, IdleLaneType DEF TypeInv, TypeOK, Lane, OfferCheckpoint, LaneTo,
          durable, LaneAt
    <2> QED BY <2>1 DEF EndsAreDurable, ToldEndingsAreDurable
  <1>25. ASSUME EndIfAbandoned PROVE EndsAreDurable'
    <2>1. UNCHANGED <<conn, db>> /\ (LaneAt("telling")' => LaneAt("telling"))
      BY <1>25, IdleLaneType DEF TypeInv, TypeOK, Lane, EndIfAbandoned,
          Abandoned, LaneEnds, LaneIdle, durable, LaneAt
    <2> QED BY <2>1 DEF EndsAreDurable, ToldEndingsAreDurable
  <1>26. ASSUME FinishGame PROVE EndsAreDurable'
    <2>1. UNCHANGED <<conn, db>> /\ (LaneAt("telling")' => LaneAt("telling"))
      BY <1>26, IdleLaneType DEF TypeInv, TypeOK, Lane, FinishGame, durable,
          LaneAt
    <2> QED BY <2>1 DEF EndsAreDurable, ToldEndingsAreDurable
  <1>27. ASSUME EndDurably PROVE EndsAreDurable'
    <2>1. UNCHANGED conn
      BY <1>27 DEF EndDurably
    <2>2. db' = db \/ db' = EndedFor(lane.cause)
      BY <1>27 DEF EndDurably
    <2>3. lane.cause \in EndCause \cup {NoCause}
      BY DEF TypeInv, TypeOK, Lane
    <2>4. db' = db \/ db'.status \in TerminalStatus
      BY <2>2, <2>3, EndingIsTerminal DEF EndedFor, TypeInv, TypeOK
    <2>5. LaneAt("telling")' => db'.status \in TerminalStatus
      BY <1>27 DEF TypeInv, TypeOK, Lane, EndDurably, LaneTo, Answer, LaneAt
    <2> QED BY <2>1, <2>4, <2>5 DEF EndsAreDurable, ToldEndingsAreDurable
  <1>28. ASSUME TellEnd PROVE EndsAreDurable'
    <2>1. db.status \in TerminalStatus /\ UNCHANGED db
      BY <1>28 DEF TellEnd, EndsAreDurable, durable
    <2> QED BY <2>1 DEF EndsAreDurable, ToldEndingsAreDurable
  <1>29. ASSUME EndFailed PROVE EndsAreDurable'
    <2>1. \A d \in Conns : conn'[d].at = "told" => conn[d].at = "told"
      <3>1. CASE UNCHANGED <<live, conn>>
        BY <3>1
      <3>2. CASE End("closed", {})
        BY <3>2, EndMoves DEF TypeInv, TypeOK, ConnType
      <3> QED BY <1>29, <3>1, <3>2, EndFailedEnds
    <2>2. UNCHANGED db /\ (LaneAt("telling")' => LaneAt("telling"))
      BY <1>29, IdleLaneType DEF TypeInv, TypeOK, Lane, EndFailed, LaneTo, LaneIdle, durable, LaneAt
    <2> QED BY <2>1, <2>2 DEF EndsAreDurable, ToldEndingsAreDurable
  <1>30. ASSUME WriteCheckpoint PROVE EndsAreDurable'
    <2>1. UNCHANGED <<conn, lane>> /\ db'.status = db.status
      BY <1>30 DEF TypeInv, TypeOK, WriteCheckpoint
    <2> QED BY <2>1 DEF EndsAreDurable, ToldEndingsAreDurable, LaneAt
  <1>31. ASSUME NEW cause \in AskedCauses, AskEnd(cause) PROVE EndsAreDurable'
    <2>1. UNCHANGED <<conn, db>> /\ (LaneAt("telling")' => LaneAt("telling"))
      BY <1>31, IdleLaneType DEF TypeInv, TypeOK, Lane, AskEnd, durable, LaneAt
    <2> QED BY <2>1 DEF EndsAreDurable, ToldEndingsAreDurable
  <1>32. ASSUME EndElsewhere PROVE EndsAreDurable'
    <2>1. db.status \in TerminalStatus /\ UNCHANGED db
      BY <1>32 DEF EndElsewhere, durable
    <2> QED BY <2>1 DEF EndsAreDurable, ToldEndingsAreDurable
  <1>33. ASSUME Reconcile PROVE EndsAreDurable'
    <2>1. UNCHANGED <<conn, lane>> /\ \E cause \in EndCause : db' = EndedFor(cause)
      BY <1>33 DEF Reconcile, EndCause
    <2>2. db'.status \in TerminalStatus
      BY <2>1, EndingIsTerminal DEF EndedFor, TypeInv, TypeOK
    <2> QED BY <2>1, <2>2 DEF EndsAreDurable, ToldEndingsAreDurable, LaneAt
  <1>34. ASSUME Retire PROVE EndsAreDurable'
    <2>1. \A d \in Conns : conn'[d].at = "told" => conn[d].at = "told"
      BY <1>34, EndMoves DEF TypeInv, TypeOK, ConnType, Retire, OpenAt, AttachAt
    <2>2. UNCHANGED db /\ (LaneAt("telling")' => LaneAt("telling"))
      BY <1>34, IdleLaneType DEF TypeInv, TypeOK, Lane, Retire, End, Fault,
          durable, LaneAt
    <2> QED BY <2>1, <2>2 DEF EndsAreDurable, ToldEndingsAreDurable
  <1>35. ASSUME Crash PROVE EndsAreDurable'
    <2>1. \A d \in Conns : conn'[d].at = "told" => conn[d].at = "told"
      BY <1>35, LostConnections DEF TypeInv, TypeOK, ConnType, Crash, OpenAt,
          AttachAt
    <2>2. UNCHANGED db /\ (LaneAt("telling")' => LaneAt("telling"))
      BY <1>35, IdleLaneType DEF TypeInv, TypeOK, Lane, Crash, FreshController,
          Fault, durable, LaneAt
    <2> QED BY <2>1, <2>2 DEF EndsAreDurable, ToldEndingsAreDurable
  <1>36. ASSUME Renew PROVE EndsAreDurable'
    <2>1. \A d \in Conns : conn'[d].at = "told" => conn[d].at = "told"
      BY <1>36, LostConnections DEF TypeInv, TypeOK, ConnType, Renew, OpenAt,
          AttachAt
    <2>2. UNCHANGED db /\ (LaneAt("telling")' => LaneAt("telling"))
      BY <1>36, IdleLaneType DEF TypeInv, TypeOK, Lane, Renew, FreshController,
          durable, LaneAt
    <2> QED BY <2>1, <2>2 DEF EndsAreDurable, ToldEndingsAreDurable
  <1>37. ASSUME UNCHANGED vars PROVE EndsAreDurable'
    BY <1>37, <1>0 DEF vars, durable, live, bounds, history
  <1> QED BY <1>1, <1>2, <1>3, <1>4, <1>5, <1>6, <1>7, <1>8, <1>9, <1>10,
        <1>11, <1>12, <1>13, <1>14, <1>15, <1>16, <1>17, <1>18, <1>19, <1>20,
        <1>21, <1>22, <1>23, <1>24, <1>25, <1>26, <1>27, <1>28, <1>29, <1>30,
        <1>31, <1>32, <1>33, <1>34, <1>35, <1>36, <1>37
        DEF Next, PlayerStep, AttachStep, LaneStep

\* Tidy operations stay so with one more that may come after each.
LEMMA OrderedAppend ==
  ASSUME NEW s \in Timeline, NEW op \in Operation, Tidy(s),
         \A i \in DOMAIN s : InOrder(s[i], op)
  PROVE  /\ Append(s, op) \in Timeline
         /\ Tidy(Append(s, op))
         /\ \A x : Waits(Append(s, op), x) <=> Waits(s, x) \/ x = op
         /\ \A i \in DOMAIN Append(s, op) : (i \in DOMAIN s /\ Append(s, op)[i] = s[i]) \/ Append(s, op)[i] = op
  <1>1. PICK t \in Timeline : t = Append(s, op)
    BY AppendProperties DEF Timeline
  <1>2. Len(s) \in Nat /\ DOMAIN s = 1..Len(s) /\ DOMAIN t = 1..(Len(s) + 1)
    BY <1>1, AppendProperties, LenProperties DEF Timeline
  <1>3. (\A i \in 1..Len(s) : t[i] = s[i]) /\ t[Len(s) + 1] = op
    BY <1>1, AppendProperties DEF Timeline
  <1>4. \A i \in DOMAIN t : (i \in DOMAIN s /\ t[i] = s[i]) \/ (i = Len(s) + 1 /\ t[i] = op)
    BY <1>2, <1>3
  <1>5. Tidy(t)
    <2> SUFFICES ASSUME NEW i \in DOMAIN t, NEW j \in DOMAIN t, i < j PROVE InOrder(t[i], t[j])
      BY DEF Tidy
    <2>1. i \in DOMAIN s /\ t[i] = s[i]
      BY <1>2, <1>3
    <2> QED BY <1>4, <2>1 DEF Tidy
  <1>6. \A x : Waits(t, x) <=> Waits(s, x) \/ x = op
    BY <1>2, <1>3 DEF Waits
  <1> QED BY <1>1, <1>4, <1>5, <1>6

\* Tidy operations stay so with others put behind that may come after each.
LEMMA OrderedConcat ==
  ASSUME NEW s \in Timeline, NEW t \in Timeline, Tidy(s), Tidy(t),
         \A i \in DOMAIN s, j \in DOMAIN t : InOrder(s[i], t[j])
  PROVE  /\ s \o t \in Timeline
         /\ Tidy(s \o t)
         /\ \A x : Waits(s \o t, x) <=> Waits(s, x) \/ Waits(t, x)
         /\ \A i \in DOMAIN (s \o t) :
              \/ \E j \in DOMAIN s : (s \o t)[i] = s[j]
              \/ \E j \in DOMAIN t : (s \o t)[i] = t[j]
  <1>1. PICK r \in Timeline : r = s \o t
    BY ConcatProperties DEF Timeline
  <1>2. /\ Len(s) \in Nat /\ DOMAIN s = 1..Len(s)
        /\ Len(t) \in Nat /\ DOMAIN t = 1..Len(t)
        /\ DOMAIN r = 1..(Len(s) + Len(t))
    BY <1>1, ConcatProperties, LenProperties DEF Timeline
  <1>3. \A i \in 1..(Len(s) + Len(t)) : r[i] = IF i <= Len(s) THEN s[i] ELSE t[i - Len(s)]
    BY <1>1, ConcatProperties DEF Timeline
  <1>4. \A i \in DOMAIN r :
          \/ i \in DOMAIN s /\ r[i] = s[i]
          \/ i > Len(s) /\ i - Len(s) \in DOMAIN t /\ r[i] = t[i - Len(s)]
    BY <1>2, <1>3
  <1>5. Tidy(r)
    <2> SUFFICES ASSUME NEW i \in DOMAIN r, NEW j \in DOMAIN r, i < j PROVE InOrder(r[i], r[j])
      BY DEF Tidy
    <2>1. CASE i \in DOMAIN s /\ j \in DOMAIN s
      <3>1. r[i] = s[i] /\ r[j] = s[j]
        BY <1>2, <1>3, <2>1
      <3> QED BY <2>1, <3>1 DEF Tidy
    <2>2. CASE i \in DOMAIN s /\ j \notin DOMAIN s
      <3>1. r[i] = s[i] /\ j - Len(s) \in DOMAIN t /\ r[j] = t[j - Len(s)]
        BY <1>2, <1>3, <2>2
      <3> QED BY <2>2, <3>1
    <2>3. CASE i \notin DOMAIN s
      <3>1. /\ i - Len(s) \in DOMAIN t /\ r[i] = t[i - Len(s)]
            /\ j - Len(s) \in DOMAIN t /\ r[j] = t[j - Len(s)]
            /\ i - Len(s) < j - Len(s)
        BY <1>2, <1>3, <2>3
      <3> QED BY <3>1 DEF Tidy
    <2> QED BY <2>1, <2>2, <2>3
  <1>6. ASSUME NEW x PROVE Waits(r, x) <=> Waits(s, x) \/ Waits(t, x)
    <2>1. Waits(r, x) => Waits(s, x) \/ Waits(t, x)
      BY <1>4 DEF Waits
    <2>2. Waits(s, x) => Waits(r, x)
      BY <1>2, <1>3 DEF Waits
    <2>3. ASSUME Waits(t, x) PROVE Waits(r, x)
      <3>1. PICK j \in DOMAIN t : t[j] = x
        BY <2>3 DEF Waits
      <3>2. Len(s) + j \in DOMAIN r /\ r[Len(s) + j] = x
        BY <1>2, <1>3, <3>1
      <3> QED BY <3>2 DEF Waits
    <2> QED BY <2>1, <2>2, <2>3
  <1> QED BY <1>1, <1>4, <1>5, <1>6

\* s is a followed by b.
Splits(s, a, b) ==
  /\ Tidy(a) /\ Tidy(b)
  /\ \A i \in DOMAIN a, j \in DOMAIN b : InOrder(a[i], b[j])
  /\ \A x : Waits(s, x) <=> Waits(a, x) \/ Waits(b, x)
  /\ \A i \in DOMAIN a : \E j \in DOMAIN s : a[i] = s[j]
  /\ \A i \in DOMAIN b : \E j \in DOMAIN s : b[i] = s[j]

\* Both parts of tidy operations are tidy, and so are they together.
LEMMA OrderedSplit ==
  ASSUME NEW s \in Timeline, NEW n \in Nat, n <= Len(s), Tidy(s),
         NEW a \in Timeline, NEW b \in Timeline,
         a = SubSeq(s, 1, n), b = SubSeq(s, n + 1, Len(s))
  PROVE  Splits(s, a, b)
  <1>1. Len(s) \in Nat /\ DOMAIN s = 1..Len(s) /\ \A i \in 1..Len(s) : s[i] \in Operation
    BY LenProperties, ElementOfSeq DEF Timeline
  <1>2. DOMAIN a = 1..n /\ \A i \in 1..n : a[i] = s[i]
    <2>1. \A i \in 1..n : s[i] \in Operation
      BY <1>1
    <2>2. Len(a) = n /\ \A i \in 1..n : a[i] = s[i]
      BY <2>1, SubSeqProperties
    <2> QED BY <2>2, LenProperties DEF Timeline
  <1>3. DOMAIN b = 1..(Len(s) - n) /\ \A i \in 1..(Len(s) - n) : b[i] = s[n + i]
    <2>1. n + 1 \in Int /\ Len(s) \in Int /\ \A i \in (n + 1)..Len(s) : s[i] \in Operation
      BY <1>1
    <2>2. /\ Len(b) = IF n + 1 <= Len(s) THEN Len(s) - (n + 1) + 1 ELSE 0
          /\ \A i \in 1..(Len(s) - (n + 1) + 1) : b[i] = s[n + 1 + i - 1]
      BY <2>1, SubSeqProperties
    <2>3. Len(b) = Len(s) - n
      <3>1. PICK m \in Nat : m = Len(s)
        BY <1>1
      <3>2. n <= m
        BY <3>1
      <3>3. CASE n + 1 <= m
        <4>1. Len(b) = m - (n + 1) + 1
          BY <2>2, <3>1, <3>3
        <4>2. m - (n + 1) + 1 = m - n
          OBVIOUS
        <4> QED BY <3>1, <4>1, <4>2
      <3>4. CASE ~(n + 1 <= m)
        <4>1. Len(b) = 0
          BY <2>2, <3>1, <3>4
        <4>2. m - n = 0
          BY <3>2, <3>4
        <4> QED BY <3>1, <4>1, <4>2
      <3> QED BY <3>3, <3>4
    <2>4. \A i \in 1..(Len(s) - n) : b[i] = s[n + i]
      BY <1>1, <2>2
    <2> QED BY <2>3, <2>4, LenProperties DEF Timeline
  <1>4. Tidy(a)
    <2> SUFFICES ASSUME NEW i \in DOMAIN a, NEW j \in DOMAIN a, i < j PROVE InOrder(a[i], a[j])
      BY DEF Tidy
    <2> QED BY <1>1, <1>2 DEF Tidy
  <1>5. Tidy(b)
    <2> SUFFICES ASSUME NEW i \in DOMAIN b, NEW j \in DOMAIN b, i < j PROVE InOrder(b[i], b[j])
      BY DEF Tidy
    <2>1. n + i \in DOMAIN s /\ n + j \in DOMAIN s /\ n + i < n + j
      BY <1>1, <1>3
    <2>2. b[i] = s[n + i] /\ b[j] = s[n + j]
      BY <1>3
    <2> QED BY <2>1, <2>2 DEF Tidy
  <1>6. ASSUME NEW i \in DOMAIN a, NEW j \in DOMAIN b PROVE InOrder(a[i], b[j])
    <2>1. i \in DOMAIN s /\ n + j \in DOMAIN s /\ i < n + j
      BY <1>1, <1>2, <1>3
    <2>2. a[i] = s[i] /\ b[j] = s[n + j]
      BY <1>2, <1>3
    <2> QED BY <2>1, <2>2 DEF Tidy
  <1>7. ASSUME NEW x PROVE Waits(s, x) <=> Waits(a, x) \/ Waits(b, x)
    <2>1. ASSUME NEW i \in DOMAIN s, s[i] = x PROVE Waits(a, x) \/ Waits(b, x)
      <3>1. CASE i <= n
        BY <1>1, <1>2, <2>1, <3>1 DEF Waits
      <3>2. CASE i > n
        <4>1. i - n \in 1..(Len(s) - n) /\ n + (i - n) = i
          BY <1>1, <3>2
        <4>2. b[i - n] = x
          BY <1>3, <2>1, <4>1
        <4> QED BY <1>3, <4>1, <4>2 DEF Waits
      <3> QED BY <1>1, <3>1, <3>2
    <2>2. Waits(a, x) => Waits(s, x)
      BY <1>1, <1>2 DEF Waits
    <2>3. ASSUME NEW i \in DOMAIN b, b[i] = x PROVE Waits(s, x)
      <3>1. n + i \in DOMAIN s /\ s[n + i] = x
        BY <1>1, <1>3, <2>3
      <3> QED BY <3>1 DEF Waits
    <2> QED BY <2>1, <2>2, <2>3 DEF Waits
  <1>8. \A i \in DOMAIN a : \E j \in DOMAIN s : a[i] = s[j]
    BY <1>1, <1>2
  <1>9. ASSUME NEW i \in DOMAIN b PROVE \E j \in DOMAIN s : b[i] = s[j]
    <2>1. n + i \in DOMAIN s /\ b[i] = s[n + i]
      BY <1>1, <1>3
    <2> QED BY <2>1
  <1> QED BY <1>4, <1>5, <1>6, <1>7, <1>8, <1>9 DEF Splits

\* An operation is a disconnection or a rejoin of its user.
LEMMA OperationIs ==
  ASSUME NEW op \in Operation
  PROVE  /\ \/ op.kind = "disconnected" /\ op = DisconnectedOp(op.user)
            \/ op.kind = "rejoin" /\ op = RejoinOp(op.user)
         /\ op.user \in Users
         /\ DisconnectedOp(op.user).kind = "disconnected" /\ RejoinOp(op.user).kind = "rejoin"
  BY DEF Operation, DisconnectedOp, RejoinOp

\* The two operations of a user.
LEMMA OperationsOf ==
  ASSUME NEW u \in Users
  PROVE  /\ DisconnectedOp(u) \in Operation /\ RejoinOp(u) \in Operation
         /\ DisconnectedOp(u).user = u /\ DisconnectedOp(u).kind = "disconnected"
         /\ RejoinOp(u).user = u /\ RejoinOp(u).kind = "rejoin"
         /\ \A v : (DisconnectedOp(u) = DisconnectedOp(v) => u = v) /\ (RejoinOp(u) = RejoinOp(v) => u = v)
                  /\ DisconnectedOp(u) # RejoinOp(v) /\ RejoinOp(u) # DisconnectedOp(v)
  BY DEF Operation, DisconnectedOp, RejoinOp

\* What the game is told stays while nobody starts or stops playing.
LEMMA GameFrame ==
  ASSUME GameIsTold,
         phase' \in {"lobby", "starting", "running"} =>
           /\ phase' = phase
           /\ UNCHANGED <<participants, timeline, rejoins, gone>>
           /\ lane'.work = lane.work
           /\ \A u \in participants : presence'[u] = "disconnected" <=> presence[u] = "disconnected",
         lane' = lane \/ (lane.at # "completing" /\ lane'.at # "completing"),
         db'.gone = db.gone, db'.disconnected = db.disconnected, db'.roster = db.roster,
         offered' \in {offered, NoOffer}, stale' = stale
  PROVE  GameIsTold'
  <1>1. ASSUME phase' = "running" PROVE OperationsAreTidy'
    <2>1. OperationsAreTidy /\ UNCHANGED <<participants, timeline, stale>> /\ lane'.work = lane.work
      BY <1>1 DEF GameIsTold
    <2> QED BY <2>1 DEF OperationsAreTidy, Tidy, InOrder
  <1>2. ASSUME phase' = "running" PROVE PlayersAreTold'
    <2>1. /\ PlayersAreTold /\ UNCHANGED <<participants, timeline, rejoins, gone, stale>>
          /\ lane'.work = lane.work
          /\ \A u \in participants : presence'[u] = "disconnected" <=> presence[u] = "disconnected"
      BY <1>2 DEF GameIsTold
    <2>2. \A op : Pending(op)' <=> Pending(op)
      BY <2>1 DEF Pending, Waits
    <2>3. (\A u : DisconnectedOp(u)' = DisconnectedOp(u)) /\ \A u : RejoinOp(u)' = RejoinOp(u)
      BY DEF DisconnectedOp, RejoinOp
    <2> QED BY <2>1, <2>2, <2>3 DEF PlayersAreTold
  <1>3. NothingIsToldYet'
    BY DEF GameIsTold, NothingIsToldYet, LaneAt
  <1>4. CheckpointsAreConsistent'
    <2>1. CheckpointsAreConsistent
      BY DEF GameIsTold
    <2>2. Consistent(db.gone, db.disconnected, db.roster)'
      BY <2>1 DEF CheckpointsAreConsistent, Consistent
    <2>3. offered' # NoOffer => Consistent(offered.gone, offered.disconnected, db.roster)'
      BY <2>1 DEF CheckpointsAreConsistent, Consistent, NoOffer
    <2>4. LaneAt("completing")' /\ phase' = "starting" => Consistent(gone, lane.resumed, lane.roster)'
      BY <2>1 DEF CheckpointsAreConsistent, Consistent, LaneAt
    <2> QED BY <2>2, <2>3, <2>4 DEF CheckpointsAreConsistent
  <1> QED BY <1>1, <1>2, <1>3, <1>4 DEF GameIsTold

\* One more operation may wait, after whatever of the same user does.
LEMMA TimelineGrows ==
  ASSUME TypeInv, OperationsAreTidy, NEW op \in Operation, op.user \in participants,
         stale \subseteq stale', UNCHANGED <<participants, lane>>,
         timeline' = Append(timeline, op),
         \A x \in Operation : Pending(x) => InOrder(x, op)
  PROVE  OperationsAreTidy' /\ \A x : Pending(x)' <=> Pending(x) \/ x = op
  <1>1. timeline \in Timeline /\ lane.work \in Timeline
    BY DEF TypeInv, TypeOK, Lane
  <1>2. /\ \A i \in DOMAIN timeline : timeline[i] \in Operation
        /\ \A i \in DOMAIN lane.work : lane.work[i] \in Operation
    BY <1>1, LenProperties, ElementOfSeq DEF Timeline
  <1>3. /\ \A i \in DOMAIN timeline : InOrder(timeline[i], op)
        /\ \A i \in DOMAIN lane.work : InOrder(lane.work[i], op)
    BY <1>2 DEF Pending, Waits
  <1>4. Tidy(timeline)
    BY DEF OperationsAreTidy
  <1>5. PICK t \in Timeline : t = Append(timeline, op)
    BY <1>1, AppendProperties DEF Timeline
  <1>6. /\ Tidy(t)
        /\ \A x : Waits(t, x) <=> Waits(timeline, x) \/ x = op
        /\ \A i \in DOMAIN t : (i \in DOMAIN timeline /\ t[i] = timeline[i]) \/ t[i] = op
    BY <1>1, <1>3, <1>4, <1>5, OrderedAppend
  <1>7. timeline' = t
    BY <1>5
  <1>8. \A i \in DOMAIN lane.work, j \in DOMAIN t : InOrder(lane.work[i], t[j])
    BY <1>3, <1>6 DEF OperationsAreTidy
  <1>9. \A j \in DOMAIN t : t[j].user \in participants
    BY <1>6 DEF OperationsAreTidy
  <1>10. OperationsAreTidy'
    <2>1. Tidy(lane.work)'
      BY DEF OperationsAreTidy, Tidy, InOrder
    <2>2. Tidy(timeline)'
      BY <1>6, <1>7 DEF Tidy, InOrder
    <2>3. (\A i \in DOMAIN lane.work, j \in DOMAIN timeline : InOrder(lane.work[i], timeline[j]))'
      BY <1>7, <1>8 DEF InOrder
    <2>4. (\A i \in DOMAIN lane.work : lane.work[i].user \in participants)'
      BY DEF OperationsAreTidy
    <2> QED BY <1>7, <1>9, <2>1, <2>2, <2>3, <2>4 DEF OperationsAreTidy
  <1>11. \A x : Pending(x)' <=> Pending(x) \/ x = op
    BY <1>6, <1>7 DEF Pending, Waits
  <1> QED BY <1>10, <1>11

\* A request to come back is told after the disconnection it follows (rejoin).
LEMMA ToldAskRejoin ==
  ASSUME TypeInv, GameIsTold, NEW c \in Conns, AskRejoin(c)
  PROVE  GameIsTold'
  <1> DEFINE u == conn[c].user
  <1>0. UNCHANGED <<phase, participants, presence, gone, db, offered, lane>>
    BY DEF AskRejoin, durable
  <1>1. CASE UNCHANGED <<rejoins, timeline, stale>>
    BY <1>0, <1>1, GameFrame
  <1>2. CASE /\ PlaysHere(u) /\ u \notin rejoins
             /\ rejoins' = rejoins \cup {u}
             /\ timeline' = Append(timeline, RejoinOp(u))
             /\ stale' = IF presence[u] = "disconnected" THEN stale ELSE stale \cup {u}
    <2> HIDE DEF u
    <2>1. /\ phase = "running" /\ u \in participants /\ u \in Users
          /\ OperationsAreTidy /\ PlayersAreTold
      BY <1>2 DEF PlaysHere, GameIsTold, TypeInv, TypeOK
    <2>2. stale \subseteq stale' /\ (presence[u] # "disconnected" => u \in stale')
          /\ \A v \in stale' : v = u \/ v \in stale
      BY <1>2
    <2>3. \A x \in Operation : Pending(x) => InOrder(x, RejoinOp(u))
      <3> SUFFICES ASSUME NEW x \in Operation, Pending(x), x.user = u, u \notin stale
                   PROVE  x.kind = "disconnected"
        BY <2>1, OperationsOf DEF InOrder
      <3>1. ~Pending(RejoinOp(u))
        BY <1>2, <2>1 DEF PlayersAreTold
      <3> QED BY <3>1, OperationIs
    <2>4. OperationsAreTidy' /\ \A x : Pending(x)' <=> Pending(x) \/ x = RejoinOp(u)
      <3>1. RejoinOp(u) \in Operation /\ RejoinOp(u).user = u
        BY <2>1, OperationsOf
      <3> QED BY <1>0, <1>2, <2>1, <2>2, <2>3, <3>1, TimelineGrows
    <2>5. PlayersAreTold'
      <3>1. ASSUME NEW v \in participants', v \notin stale'
            PROVE  /\ Pending(DisconnectedOp(v))' => presence'[v] = "disconnected"
                   /\ Pending(RejoinOp(v))' => presence'[v] = "disconnected" /\ v \in rejoins'
                   /\ v \in gone' <=> presence'[v] = "disconnected" /\ ~Pending(DisconnectedOp(v))'
        <4>1. v \in participants /\ v \notin stale /\ v \in Users
          BY <1>0, <2>2, <3>1 DEF TypeInv, TypeOK
        <4>2. Pending(DisconnectedOp(v))' <=> Pending(DisconnectedOp(v))
          BY <2>1, <2>4, <4>1, OperationsOf
        <4>3. Pending(RejoinOp(v))' => Pending(RejoinOp(v)) \/ v = u
          BY <2>1, <2>4, <4>1, OperationsOf
        <4> QED BY <1>0, <1>2, <2>1, <2>2, <3>1, <4>1, <4>2, <4>3 DEF PlayersAreTold
      <3>2. gone' \ stale' \subseteq participants'
        BY <1>0, <2>1, <2>2 DEF PlayersAreTold
      <3> QED BY <3>1, <3>2 DEF PlayersAreTold
    <2>6. NothingIsToldYet'
      BY <1>0, <2>1 DEF NothingIsToldYet
    <2>7. CheckpointsAreConsistent'
      BY <1>0, <2>1, <2>2 DEF GameIsTold, CheckpointsAreConsistent, Consistent, LaneAt
    <2> QED BY <2>4, <2>5, <2>6, <2>7 DEF GameIsTold
  <1>3. CASE /\ PlaysHere(u) /\ u \in rejoins
             /\ rejoins' = rejoins \cup {u} /\ UNCHANGED <<timeline, stale>>
    <2>1. rejoins' = rejoins
      BY <1>3
    <2> QED BY <1>0, <1>3, <2>1, GameFrame
  <1> QED BY <1>1, <1>2, <1>3 DEF AskRejoin

\* Whoever leaves a running game is told to it (leave).
LEMMA ToldLeave ==
  ASSUME TypeInv, GameIsTold, NEW c \in Conns, LeaveSettled(c)
  PROVE  GameIsTold'
  <1> DEFINE u == conn[c].user
  <1>0. UNCHANGED <<phase, participants, rejoins, gone, db, offered, lane, stale>>
    BY DEF LeaveSettled, LeaveLobby, durable, history
  <1>1. CASE UNCHANGED <<timeline, presence>>
    BY <1>0, <1>1, GameFrame
  <1>2. CASE /\ PlaysHere(u) /\ presence[u] # "disconnected"
             /\ presence' = [presence EXCEPT ![u] = "disconnected"]
             /\ timeline' = Append(timeline, DisconnectedOp(u))
    <2> HIDE DEF u
    <2>1. /\ phase = "running" /\ u \in participants /\ u \in Users
          /\ OperationsAreTidy /\ PlayersAreTold
      BY <1>2 DEF PlaysHere, GameIsTold, TypeInv, TypeOK
    <2>3. \A x \in Operation : Pending(x) => InOrder(x, DisconnectedOp(u))
      <3> SUFFICES ASSUME NEW x \in Operation, Pending(x), x.user = u, u \notin stale
                   PROVE  FALSE
        BY <2>1, OperationsOf DEF InOrder
      <3>1. ~Pending(RejoinOp(u)) /\ ~Pending(DisconnectedOp(u))
        BY <1>2, <2>1 DEF PlayersAreTold
      <3> QED BY <3>1, OperationIs
    <2>4. OperationsAreTidy' /\ \A x : Pending(x)' <=> Pending(x) \/ x = DisconnectedOp(u)
      <3>1. DisconnectedOp(u) \in Operation /\ DisconnectedOp(u).user = u
        BY <2>1, OperationsOf
      <3> QED BY <1>0, <1>2, <2>1, <2>3, <3>1, TimelineGrows
    <2>5. PlayersAreTold'
      <3>1. ASSUME NEW v \in participants', v \notin stale'
            PROVE  /\ Pending(DisconnectedOp(v))' => presence'[v] = "disconnected"
                   /\ Pending(RejoinOp(v))' => presence'[v] = "disconnected" /\ v \in rejoins'
                   /\ v \in gone' <=> presence'[v] = "disconnected" /\ ~Pending(DisconnectedOp(v))'
        <4>1. v \in participants /\ v \notin stale /\ v \in Users
          BY <1>0, <3>1 DEF TypeInv, TypeOK
        <4>2. Pending(DisconnectedOp(v))' <=> Pending(DisconnectedOp(v)) \/ v = u
          BY <2>1, <2>4, <4>1, OperationsOf
        <4>3. Pending(RejoinOp(v))' <=> Pending(RejoinOp(v))
          BY <2>1, <2>4, <4>1, OperationsOf
        <4>4. presence'[v] = IF v = u THEN "disconnected" ELSE presence[v]
          BY <1>2, <4>1 DEF TypeInv, TypeOK
        <4> QED BY <1>0, <1>2, <2>1, <4>1, <4>2, <4>3, <4>4 DEF PlayersAreTold
      <3>2. gone' \ stale' \subseteq participants'
        BY <1>0, <2>1 DEF PlayersAreTold
      <3> QED BY <3>1, <3>2 DEF PlayersAreTold
    <2>6. NothingIsToldYet'
      BY <1>0, <2>1 DEF NothingIsToldYet
    <2>7. CheckpointsAreConsistent'
      BY <1>0, <2>1 DEF GameIsTold, CheckpointsAreConsistent, Consistent, LaneAt
    <2> QED BY <2>1, <2>4, <2>5, <2>6, <2>7 DEF GameIsTold
  <1> QED BY <1>1, <1>2 DEF LeaveSettled, LeaveLobby

\* A boundary takes the oldest operations, and tells of whoever's grace ran out
\* behind them (takeBoundary).
LEMMA ToldTake ==
  ASSUME TypeInv, LaneInv, GameIsTold, NEW expired \in SUBSET Users, TakeBoundary(expired)
  PROVE  GameIsTold'
  <1>0. /\ UNCHANGED <<phase, participants, rejoins, gone, db, offered, stale>>
        /\ phase = "running" /\ OperationsAreTidy /\ PlayersAreTold
        /\ \A u \in expired : u \in participants /\ presence[u] = "awaiting"
        /\ presence' = [u \in Users |-> IF u \in expired THEN "disconnected" ELSE presence[u]]
    BY DEF TakeBoundary, durable, history, GameIsTold
  <1>1. lane.work = <<>>
    BY IdleLaneType DEF TakeBoundary, LaneInv, LaneIsTidy
  <1>2. PICK accepted \in Timeline, taken \in Nat :
           /\ accepted = timeline \o ExpiredOps(expired)
           /\ taken <= Len(accepted)
           /\ SubSeq(accepted, 1, taken) \in Timeline
           /\ SubSeq(accepted, taken + 1, Len(accepted)) \in Timeline
           /\ timeline' = SubSeq(accepted, taken + 1, Len(accepted))
           /\ \/ lane' = [IdleLane EXCEPT !.at = "executing", !.work = SubSeq(accepted, 1, taken)]
              \/ accepted = <<>> /\ Abandoned /\ lane' = [IdleLane EXCEPT !.at = "deciding"]
    BY BoundaryTaken DEF TypeInv
  <1>3. PICK late \in Timeline : late = ExpiredOps(expired)
    BY ExpiredAreListed
  <1>4. /\ DOMAIN late = 1..Cardinality(expired)
        /\ \A i \in DOMAIN late : late[i].kind = "disconnected" /\ late[i].user \in expired
        /\ \A i, j \in DOMAIN late : late[i].user = late[j].user => i = j
        /\ \A u \in expired : \E i \in DOMAIN late : late[i] = DisconnectedOp(u)
    <2>1. DOMAIN late = 1..Cardinality(expired)
      BY <1>3, ExpiredAreListed, LenProperties DEF Timeline
    <2> QED BY <1>3, <2>1, ExpiredAreListed
  <1>5. /\ \A u \in Users : Waits(late, DisconnectedOp(u)) <=> u \in expired
        /\ \A u \in Users : ~Waits(late, RejoinOp(u))
    BY <1>4, OperationsOf DEF Waits
  <1>6. timeline \in Timeline /\ \A i \in DOMAIN timeline : timeline[i] \in Operation
    BY LenProperties, ElementOfSeq DEF TypeInv, TypeOK, Timeline
  <1>7. /\ Tidy(accepted)
        /\ \A x : Waits(accepted, x) <=> Waits(timeline, x) \/ Waits(late, x)
        /\ \A i \in DOMAIN accepted : \/ \E j \in DOMAIN timeline : accepted[i] = timeline[j]
                                     \/ \E j \in DOMAIN late : accepted[i] = late[j]
    <2>1. Tidy(timeline)
      BY <1>0 DEF OperationsAreTidy
    <2>2. Tidy(late)
      <3> SUFFICES ASSUME NEW i \in DOMAIN late, NEW j \in DOMAIN late, i < j
                   PROVE  late[i].user # late[j].user
        BY DEF Tidy, InOrder
      <3>1. i # j
        BY <1>4, ExpiredAreListed
      <3> QED BY <1>4, <3>1
    <2>3. ASSUME NEW i \in DOMAIN timeline, NEW j \in DOMAIN late PROVE InOrder(timeline[i], late[j])
      <3> SUFFICES ASSUME timeline[i].user = late[j].user, late[j].user \notin stale PROVE FALSE
        BY DEF InOrder
      <3>1. PICK u \in expired : u = late[j].user
        BY <1>4
      <3>2. u \in participants \ stale /\ presence[u] = "awaiting"
        BY <1>0, <3>1
      <3>3. Pending(timeline[i])
        BY DEF Pending, Waits
      <3>4. timeline[i] = DisconnectedOp(u) \/ timeline[i] = RejoinOp(u)
        BY <1>6, <3>1, OperationIs
      <3>5. ~Pending(DisconnectedOp(u)) /\ ~Pending(RejoinOp(u))
        BY <1>0, <3>2 DEF PlayersAreTold
      <3> QED BY <3>3, <3>4, <3>5
    <2>4. timeline \in Timeline /\ accepted = timeline \o late
      BY <1>2, <1>3, <1>6
    <2>5. /\ Tidy(timeline \o late)
          /\ \A x : Waits(timeline \o late, x) <=> Waits(timeline, x) \/ Waits(late, x)
          /\ \A i \in DOMAIN (timeline \o late) : \/ \E j \in DOMAIN timeline : (timeline \o late)[i] = timeline[j]
                                              \/ \E j \in DOMAIN late : (timeline \o late)[i] = late[j]
      BY <2>1, <2>2, <2>3, <2>4, OrderedConcat
    <2> QED BY <2>4, <2>5
  <1>8. \A i \in DOMAIN accepted : accepted[i].user \in participants
    BY <1>0, <1>4, <1>7 DEF OperationsAreTidy
  <1>9. PICK a \in Timeline, b \in Timeline :
          a = SubSeq(accepted, 1, taken) /\ b = SubSeq(accepted, taken + 1, Len(accepted))
    BY <1>2
  <1>10. /\ Tidy(a) /\ Tidy(b)
         /\ \A i \in DOMAIN a, j \in DOMAIN b : InOrder(a[i], b[j])
         /\ \A x : Waits(accepted, x) <=> Waits(a, x) \/ Waits(b, x)
         /\ \A i \in DOMAIN a : \E j \in DOMAIN accepted : a[i] = accepted[j]
         /\ \A i \in DOMAIN b : \E j \in DOMAIN accepted : b[i] = accepted[j]
    <2>1. taken <= Len(accepted) /\ Tidy(accepted)
      BY <1>2, <1>7
    <2>2. Splits(accepted, a, b)
      BY <1>9, <2>1, OrderedSplit
    <2> QED BY <2>2 DEF Splits
  <1>11. timeline' = b /\ lane'.work = a /\ lane'.at # "completing"
    <2>1. CASE lane' = [IdleLane EXCEPT !.at = "executing", !.work = SubSeq(accepted, 1, taken)]
      BY <1>2, <1>9, <2>1, IdleLaneType DEF Lane
    <2>2. CASE accepted = <<>> /\ lane' = [IdleLane EXCEPT !.at = "deciding"]
      <3>1. Len(accepted) = 0
        BY <2>2, EmptySeq
      <3>2. taken = 0
        BY <1>2, <3>1
      <3>3. a = <<>>
        BY <1>9, <3>2, SubSeqEmpty
      <3> QED BY <1>2, <1>9, <2>2, <3>3, IdleLaneType DEF Lane
    <2> QED BY <1>2, <2>1, <2>2
  <1>12. OperationsAreTidy'
    <2>1. Tidy(lane.work)' /\ Tidy(timeline)'
      BY <1>0, <1>10, <1>11 DEF Tidy, InOrder
    <2>2. (\A i \in DOMAIN lane.work, j \in DOMAIN timeline : InOrder(lane.work[i], timeline[j]))'
      BY <1>0, <1>10, <1>11 DEF InOrder
    <2>3. /\ (\A i \in DOMAIN lane.work : lane.work[i].user \in participants)'
          /\ (\A i \in DOMAIN timeline : timeline[i].user \in participants)'
      BY <1>0, <1>8, <1>10, <1>11
    <2> QED BY <2>1, <2>2, <2>3 DEF OperationsAreTidy
  <1>13. \A x : Pending(x)' <=> Pending(x) \/ Waits(late, x)
    <2>1. \A x : Pending(x)' <=> Waits(a, x) \/ Waits(b, x)
      BY <1>11 DEF Pending, Waits
    <2>2. \A x : Pending(x) <=> Waits(timeline, x)
      BY <1>1 DEF Pending, Waits
    <2> QED BY <1>7, <1>10, <2>1, <2>2
  <1>14. PlayersAreTold'
    <2>1. ASSUME NEW u \in participants', u \notin stale'
          PROVE  /\ Pending(DisconnectedOp(u))' => presence'[u] = "disconnected"
                 /\ Pending(RejoinOp(u))' => presence'[u] = "disconnected" /\ u \in rejoins'
                 /\ u \in gone' <=> presence'[u] = "disconnected" /\ ~Pending(DisconnectedOp(u))'
      <3>1. u \in participants /\ u \notin stale /\ u \in Users
        BY <1>0, <2>1 DEF TypeInv, TypeOK
      <3>2. Pending(DisconnectedOp(u))' <=> Pending(DisconnectedOp(u)) \/ u \in expired
        BY <1>5, <1>13, <3>1
      <3>3. Pending(RejoinOp(u))' <=> Pending(RejoinOp(u))
        BY <1>5, <1>13, <3>1
      <3>4. /\ Pending(DisconnectedOp(u)) => presence[u] = "disconnected"
            /\ Pending(RejoinOp(u)) => presence[u] = "disconnected" /\ u \in rejoins
            /\ u \in gone <=> presence[u] = "disconnected" /\ ~Pending(DisconnectedOp(u))
        BY <1>0, <3>1 DEF PlayersAreTold
      <3>5. presence'[u] = IF u \in expired THEN "disconnected" ELSE presence[u]
        BY <1>0, <3>1
      <3>6. u \in expired => presence[u] = "awaiting"
        BY <1>0
      <3> QED BY <1>0, <3>2, <3>3, <3>4, <3>5, <3>6
    <2>2. gone' \ stale' \subseteq participants'
      BY <1>0 DEF PlayersAreTold
    <2> QED BY <2>1, <2>2 DEF PlayersAreTold
  <1>15. NothingIsToldYet'
    BY <1>0 DEF NothingIsToldYet
  <1>16. CheckpointsAreConsistent'
    BY <1>0, <1>11 DEF GameIsTold, CheckpointsAreConsistent, Consistent, LaneAt
  <1> QED BY <1>12, <1>14, <1>15, <1>16 DEF GameIsTold

\* What a boundary committed was told in order: only the last operation of a
\* participant decides (commitBoundary, decideRejoin).
LEMMA ToldCommit ==
  ASSUME TypeInv, LaneInv, GameIsTold, NEW executed \in 0..Len(lane.work),
         NEW accepted \in SUBSET Users, NEW finished \in BOOLEAN,
         CommitBoundary(executed, accepted, finished)
  PROVE  GameIsTold'
  <1>0. UNCHANGED <<participants, timeline, db, offered, stale>> /\ LaneAt("executing")
    BY DEF CommitBoundary, durable, live, history
  <1>1. lane'.at # "completing" /\ lane'.work = <<>>
    <2>1. lane' \in {IdleLane, [IdleLane EXCEPT !.at = "ending", !.cause = "GAME_FINISHED"],
                    [IdleLane EXCEPT !.at = "committed"]}
      BY DEF CommitBoundary, LaneIdle
    <2> QED BY <2>1, IdleLaneType DEF Lane
  <1>2. CASE phase # "running"
    <2>1. UNCHANGED <<phase, participants, timeline, rejoins, gone, presence>>
      BY <1>2 DEF CommitBoundary, live
    <2>2. phase' # "running"
      BY <1>2, <2>1
    <2>3. NothingIsToldYet'
      BY <1>0, <2>1 DEF GameIsTold, NothingIsToldYet, LaneAt
    <2>4. CheckpointsAreConsistent'
      BY <1>0, <1>1 DEF GameIsTold, CheckpointsAreConsistent, Consistent, LaneAt
    <2> QED BY <2>2, <2>3, <2>4 DEF GameIsTold
  <1>3. CASE phase = "running" /\ finished
    <2>1. phase' = "finishing"
      BY <1>3 DEF CommitBoundary
    <2>2. CheckpointsAreConsistent'
      BY <1>0, <1>1 DEF GameIsTold, CheckpointsAreConsistent, Consistent, LaneAt
    <2> QED BY <2>1, <2>2 DEF GameIsTold, NothingIsToldYet
  <1>4. CASE phase = "running" /\ ~finished
    <2>0. lane.work \in Timeline
      BY DEF TypeInv, TypeOK, Lane
    <2>1. SubSeq(lane.work, 1, executed) = lane.work
      BY <1>4, <2>0, SubSeqFull DEF CommitBoundary, Timeline
    <2> DEFINE decided == {u \in Users : Waits(lane.work, RejoinOp(u))}
    <2>2. /\ phase' = phase /\ gone' = GoneAfter(lane.work, accepted)
          /\ rejoins' = rejoins \ decided /\ accepted \subseteq decided
          /\ presence' = [u \in Users |-> IF u \in accepted THEN "awaiting" ELSE presence[u]]
      BY <1>4, <2>1 DEF CommitBoundary
    <2>3. OperationsAreTidy /\ PlayersAreTold
      BY <1>4 DEF GameIsTold
    <2>4. OperationsAreTidy'
      <3>1. /\ Tidy(timeline)' /\ Tidy(lane.work)'
            /\ (\A i \in DOMAIN lane.work, j \in DOMAIN timeline : InOrder(lane.work[i], timeline[j]))'
        BY <1>0, <1>1, <2>3 DEF OperationsAreTidy, Tidy, InOrder
      <3>2. /\ (\A i \in DOMAIN lane.work : lane.work[i].user \in participants)'
            /\ (\A i \in DOMAIN timeline : timeline[i].user \in participants)'
        BY <1>0, <1>1, <2>3 DEF OperationsAreTidy
      <3> QED BY <3>1, <3>2 DEF OperationsAreTidy
    <2>5. \A x : Pending(x)' <=> Waits(timeline, x)
      BY <1>0, <1>1 DEF Pending, Waits
    <2>6. \A i \in DOMAIN lane.work : lane.work[i] \in Operation
      BY <2>0, LenProperties, ElementOfSeq DEF Timeline
    <2>7. \A u \in gone' : u \in gone \/ \E i \in DOMAIN lane.work : lane.work[i].user = u
      BY <2>2 DEF GoneAfter
    <2>8. DOMAIN lane.work \subseteq Nat
      BY <2>0, LenProperties DEF Timeline
    <2>9. ASSUME NEW u \in participants, u \notin stale
          PROVE  /\ Waits(timeline, DisconnectedOp(u)) => presence'[u] = "disconnected"
                 /\ Waits(timeline, RejoinOp(u)) => presence'[u] = "disconnected" /\ u \in rejoins'
                 /\ u \in gone' <=> presence'[u] = "disconnected" /\ ~Waits(timeline, DisconnectedOp(u))
      <3>0. u \in Users
        BY DEF TypeInv, TypeOK
      <3>1. /\ Pending(DisconnectedOp(u)) => presence[u] = "disconnected"
            /\ Pending(RejoinOp(u)) => presence[u] = "disconnected" /\ u \in rejoins
            /\ u \in gone <=> presence[u] = "disconnected" /\ ~Pending(DisconnectedOp(u))
        BY <2>3, <2>9 DEF PlayersAreTold
      <3>2. presence'[u] = IF u \in accepted THEN "awaiting" ELSE presence[u]
        BY <2>2, <3>0
      <3>3. u \in decided <=> Waits(lane.work, RejoinOp(u))
        BY <3>0
      <3>4. /\ DisconnectedOp(u).user = u /\ DisconnectedOp(u).kind = "disconnected"
            /\ RejoinOp(u).user = u /\ RejoinOp(u).kind = "rejoin"
        BY <3>0, OperationsOf
      <3>5. u \in decided => ~Waits(timeline, DisconnectedOp(u)) /\ ~Waits(timeline, RejoinOp(u))
        <4> SUFFICES ASSUME NEW i \in DOMAIN lane.work, lane.work[i] = RejoinOp(u),
                            NEW j \in DOMAIN timeline, timeline[j].user = u
                     PROVE  FALSE
          BY <3>3, <3>4 DEF Waits
        <4>1. InOrder(lane.work[i], timeline[j])
          BY <2>3 DEF OperationsAreTidy
        <4> QED BY <2>9, <3>4, <4>1 DEF InOrder
      <3>6. Waits(lane.work, DisconnectedOp(u)) => ~Waits(timeline, DisconnectedOp(u))
        <4> SUFFICES ASSUME NEW i \in DOMAIN lane.work, lane.work[i] = DisconnectedOp(u),
                            NEW j \in DOMAIN timeline, timeline[j] = DisconnectedOp(u)
                     PROVE  FALSE
          BY DEF Waits
        <4>1. InOrder(lane.work[i], timeline[j])
          BY <2>3 DEF OperationsAreTidy
        <4> QED BY <2>9, <3>4, <4>1 DEF InOrder
      <3> DEFINE told == {i \in DOMAIN lane.work :
                            /\ lane.work[i].user = u
                            /\ lane.work[i].kind = "disconnected" \/ u \in accepted}
      <3>7. u \in gone' <=> IF told = {} THEN u \in gone
                            ELSE \E i \in told : /\ lane.work[i].kind = "disconnected"
                                                /\ \A j \in told : j <= i
        BY <2>2, <3>0 DEF GoneAfter
      <3>8. CASE u \in accepted
        <4>1. PICK r \in DOMAIN lane.work : lane.work[r] = RejoinOp(u)
          BY <2>2, <3>3, <3>8 DEF Waits
        <4>2. r \in told
          BY <3>4, <3>8, <4>1
        <4>3. ASSUME NEW i \in told, lane.work[i].kind = "disconnected", r <= i PROVE FALSE
          <5>1. r < i
            BY <2>8, <3>4, <4>1, <4>3
          <5>2. InOrder(lane.work[r], lane.work[i])
            BY <2>3, <5>1 DEF OperationsAreTidy, Tidy
          <5> QED BY <2>9, <3>4, <4>1, <5>2 DEF InOrder
        <4>4. u \notin gone'
          BY <3>7, <4>2, <4>3
        <4>5. u \in decided /\ presence'[u] = "awaiting"
          BY <2>2, <3>2, <3>8
        <4> QED BY <3>5, <4>4, <4>5
      <3>9. CASE u \notin accepted
        <4>1. \A i \in DOMAIN lane.work : i \in told <=> lane.work[i] = DisconnectedOp(u)
          BY <2>6, <3>4, <3>9, OperationIs
        <4>2. presence'[u] = presence[u]
          BY <3>2, <3>9
        <4>3. CASE told = {}
          <5>1. ~Waits(lane.work, DisconnectedOp(u))
            BY <4>1, <4>3 DEF Waits
          <5>2. u \in gone' <=> u \in gone
            BY <3>7, <4>3
          <5>3. Pending(DisconnectedOp(u)) <=> Waits(timeline, DisconnectedOp(u))
            BY <5>1 DEF Pending
          <5>4. Waits(timeline, RejoinOp(u)) => u \in rejoins /\ u \notin decided /\ presence[u] = "disconnected"
            BY <3>1, <3>5 DEF Pending
          <5> QED BY <2>2, <3>1, <4>2, <5>2, <5>3, <5>4
        <4>4. CASE told # {}
          <5>1. PICK i \in told : TRUE
            BY <4>4
          <5>2. lane.work[i] = DisconnectedOp(u) /\ Waits(lane.work, DisconnectedOp(u))
            BY <4>1, <5>1 DEF Waits
          <5>3. ASSUME NEW j \in told PROVE j <= i
            <6> SUFFICES ASSUME i < j PROVE FALSE
              BY <2>8, <5>1
            <6>1. InOrder(lane.work[i], lane.work[j])
              BY <2>3, <5>1 DEF OperationsAreTidy, Tidy
            <6> QED BY <2>9, <3>4, <4>1, <5>2, <6>1 DEF InOrder
          <5>4. u \in gone'
            BY <3>4, <3>7, <4>4, <5>1, <5>2, <5>3
          <5>5. presence[u] = "disconnected" /\ ~Waits(timeline, DisconnectedOp(u))
            BY <3>1, <3>6, <5>2 DEF Pending
          <5>6. Waits(timeline, RejoinOp(u)) => u \in rejoins /\ u \notin decided
            BY <3>1, <3>5 DEF Pending
          <5> QED BY <2>2, <4>2, <5>4, <5>5, <5>6
        <4> QED BY <4>3, <4>4
      <3> QED BY <3>8, <3>9
    <2>10. PlayersAreTold'
      <3>1. ASSUME NEW u \in participants', u \notin stale'
            PROVE  /\ Pending(DisconnectedOp(u))' => presence'[u] = "disconnected"
                   /\ Pending(RejoinOp(u))' => presence'[u] = "disconnected" /\ u \in rejoins'
                   /\ u \in gone' <=> presence'[u] = "disconnected" /\ ~Pending(DisconnectedOp(u))'
        <4>1. u \in participants /\ u \notin stale
          BY <1>0, <3>1
        <4>2. /\ Pending(DisconnectedOp(u))' <=> Waits(timeline, DisconnectedOp(u))
              /\ Pending(RejoinOp(u))' <=> Waits(timeline, RejoinOp(u))
          BY <2>5
        <4> QED BY <2>9, <4>1, <4>2
      <3>2. gone' \ stale' \subseteq participants'
        BY <1>0, <2>3, <2>7 DEF PlayersAreTold, OperationsAreTidy
      <3> QED BY <3>1, <3>2 DEF PlayersAreTold
    <2>11. NothingIsToldYet'
      BY <1>4, <2>2 DEF NothingIsToldYet
    <2>12. CheckpointsAreConsistent'
      BY <1>0, <1>1 DEF GameIsTold, CheckpointsAreConsistent, Consistent, LaneAt
    <2> QED BY <2>4, <2>10, <2>11, <2>12 DEF GameIsTold
  <1> QED BY <1>2, <1>3, <1>4

\* A failed boundary puts back what it took, in order (requeue).
LEMMA ToldFail ==
  ASSUME TypeInv, LaneInv, GameIsTold, FailBoundary
  PROVE  GameIsTold'
  <1>0. /\ UNCHANGED <<phase, participants, presence, rejoins, gone, db, offered, stale>>
        /\ LaneAt("executing")
    BY DEF FailBoundary, durable, history
  <1>1. CASE LaneEnds("SCRIPT_FAILURE") /\ UNCHANGED timeline
    <2>1. lane'.work = lane.work /\ lane'.at # "completing" /\ lane.at # "completing"
      BY <1>0, <1>1 DEF TypeInv, TypeOK, Lane, LaneEnds, LaneAt
    <2> QED BY <1>0, <1>1, <2>1, GameFrame
  <1>2. CASE /\ timeline' = IF phase = "running" THEN Requeued ELSE timeline
             /\ lane' \in {IdleLane, [IdleLane EXCEPT !.at = "ending", !.cause = "UNRECOVERABLE_INFRA_FAILURE"]}
    <2>1. lane'.work = <<>> /\ lane'.at # "completing" /\ lane.at # "completing"
      BY <1>0, <1>2, IdleLaneType DEF Lane, LaneAt
    <2>2. NothingIsToldYet'
      BY <1>0, <1>2, <2>1 DEF GameIsTold, NothingIsToldYet, LaneAt
    <2>3. CheckpointsAreConsistent'
      BY <1>0, <2>1 DEF GameIsTold, CheckpointsAreConsistent, Consistent, LaneAt
    <2>4. ASSUME phase' = "running" PROVE OperationsAreTidy' /\ PlayersAreTold'
      <3>1. OperationsAreTidy /\ PlayersAreTold /\ timeline' = lane.work \o timeline
        BY <1>0, <1>2, <2>4 DEF GameIsTold, Requeued
      <3>2. lane.work \in Timeline /\ timeline \in Timeline
        BY DEF TypeInv, TypeOK, Lane
      <3>3. PICK t \in Timeline : t = lane.work \o timeline
        BY <3>2, ConcatProperties DEF Timeline
      <3>4. /\ Tidy(t)
            /\ \A x : Waits(t, x) <=> Waits(lane.work, x) \/ Waits(timeline, x)
            /\ \A i \in DOMAIN t : \/ \E j \in DOMAIN lane.work : t[i] = lane.work[j]
                                  \/ \E j \in DOMAIN timeline : t[i] = timeline[j]
        BY <3>1, <3>2, <3>3, OrderedConcat DEF OperationsAreTidy
      <3>5. OperationsAreTidy'
        <4>1. Tidy(timeline)' /\ Tidy(lane.work)'
          BY <1>0, <2>1, <3>1, <3>3, <3>4 DEF Tidy, InOrder
        <4>2. (\A i \in DOMAIN timeline : timeline[i].user \in participants)'
          BY <1>0, <3>1, <3>3, <3>4 DEF OperationsAreTidy
        <4> QED BY <2>1, <4>1, <4>2 DEF OperationsAreTidy
      <3>6. \A x : Pending(x)' <=> Pending(x)
        <4>1. \A x : Waits(lane.work, x)' <=> FALSE
          BY <2>1 DEF Waits
        <4>2. \A x : Waits(timeline, x)' <=> Waits(t, x)
          BY <3>1, <3>3 DEF Waits
        <4> QED BY <3>4, <4>1, <4>2 DEF Pending
      <3>7. (\A u : DisconnectedOp(u)' = DisconnectedOp(u)) /\ \A u : RejoinOp(u)' = RejoinOp(u)
        BY DEF DisconnectedOp, RejoinOp
      <3>8. PlayersAreTold'
        BY <1>0, <3>1, <3>6, <3>7 DEF PlayersAreTold
      <3> QED BY <3>5, <3>8
    <2> QED BY <2>2, <2>3, <2>4 DEF GameIsTold
  <1> QED BY <1>1, <1>2 DEF FailBoundary

\* Every step keeps the game told of who plays.
LEMMA GameStep ==
  TypeInv /\ LaneInv /\ DurableIsCommitted /\ GameIsTold /\ [Next]_vars => GameIsTold'
  <1> SUFFICES ASSUME TypeInv, LaneInv, DurableIsCommitted, GameIsTold, [Next]_vars PROVE GameIsTold'
    OBVIOUS
  <1>0. ASSUME UNCHANGED <<phase, participants, timeline, rejoins, gone, presence, lane, db, offered, stale>> PROVE GameIsTold'
    BY <1>0, GameFrame
  <1>1. ASSUME NEW c \in Conns, NEW u \in Users, Connect(c, u) PROVE GameIsTold'
    <2>1. lane' = lane /\ lane'.work = lane.work
      BY <1>1 DEF Connect
    <2>2. phase' \in {"lobby", "starting", "running"} =>
            phase' = phase /\ UNCHANGED <<participants, timeline, rejoins, gone, presence>>
      BY <1>1 DEF Connect, live
    <2>d. UNCHANGED <<db, stale>> /\ offered' \in {offered, NoOffer}
      BY <1>1 DEF Connect, durable, history
    <2> QED BY <2>1, <2>2, <2>d, GameFrame
  <1>2. ASSUME NEW c \in Conns, CheckEligibility(c) PROVE GameIsTold'
    <2>1. lane' = lane /\ lane'.work = lane.work
      BY <1>2 DEF CheckEligibility
    <2>2. phase' \in {"lobby", "starting", "running"} =>
            phase' = phase /\ UNCHANGED <<participants, timeline, rejoins, gone, presence>>
      BY <1>2 DEF CheckEligibility, live
    <2>d. UNCHANGED <<db, stale>> /\ offered' \in {offered, NoOffer}
      BY <1>2 DEF CheckEligibility, durable, history
    <2> QED BY <2>1, <2>2, <2>d, GameFrame
  <1>3. ASSUME NEW c \in Conns, JoinLobby(c) PROVE GameIsTold'
    <2>1. lane' = lane /\ lane'.work = lane.work
      BY <1>3 DEF JoinLobby
    <2>2. phase' \in {"lobby", "starting", "running"} =>
            phase' = phase /\ UNCHANGED <<participants, timeline, rejoins, gone, presence>>
      BY <1>3 DEF JoinLobby, live
    <2>d. UNCHANGED <<db, stale>> /\ offered' \in {offered, NoOffer}
      BY <1>3 DEF JoinLobby, durable, history
    <2> QED BY <2>1, <2>2, <2>d, GameFrame
  <1>4. ASSUME NEW c \in Conns, RecoveryNotNeeded(c) PROVE GameIsTold'
    <2>1. lane' = lane /\ lane'.work = lane.work
      BY <1>4 DEF RecoveryNotNeeded
    <2>2. phase' \in {"lobby", "starting", "running"} =>
            phase' = phase /\ UNCHANGED <<participants, timeline, rejoins, gone, presence>>
      BY <1>4 DEF RecoveryNotNeeded, live
    <2>d. UNCHANGED <<db, stale>> /\ offered' \in {offered, NoOffer}
      BY <1>4 DEF RecoveryNotNeeded, durable, history
    <2> QED BY <2>1, <2>2, <2>d, GameFrame
  <1>5. ASSUME NEW c \in Conns, RequestRecovery(c) PROVE GameIsTold'
    <2>1. CASE Freeze /\ lane'.at # "completing" /\ lane.at # "completing"
      <3>1. NothingIsToldYet'
        BY <1>5, <2>1 DEF RequestRecovery, Freeze, GameIsTold, NothingIsToldYet, LaneAt
      <3>2. CheckpointsAreConsistent'
        BY <1>5, <2>1 DEF RequestRecovery, durable, history, GameIsTold, CheckpointsAreConsistent, Consistent, LaneAt
      <3>3. phase' = "starting"
        BY <1>5, <2>1 DEF RequestRecovery, Freeze
      <3> QED BY <3>1, <3>2, <3>3 DEF GameIsTold
    <2>2. CASE UNCHANGED <<live, lane>>
      BY <1>5, <2>2, GameFrame DEF RequestRecovery, live, durable, history
    <2>3. Freeze \/ UNCHANGED <<live, lane>>
      BY <1>5 DEF RequestRecovery
    <2>4. Freeze => lane'.at # "completing" /\ lane.at # "completing"
      BY <1>5, IdleLaneType DEF RequestRecovery, Freeze, Lane, LaneAt, NoConn, Conns
    <2> QED BY <2>1, <2>2, <2>3, <2>4
  <1>6. ASSUME NEW c \in Conns, Reattach(c) PROVE GameIsTold'
    <2>1. lane' = lane /\ lane'.work = lane.work
      BY <1>6 DEF Reattach
    <2>2. phase' \in {"lobby", "starting", "running"} =>
            phase' = phase /\ UNCHANGED <<participants, timeline, rejoins, gone>>
      BY <1>6 DEF Reattach, live
    <2>p. \A u \in participants : presence'[u] = "disconnected" <=> presence[u] = "disconnected"
      BY <1>6 DEF TypeInv, TypeOK, Reattach, live
    <2>d. UNCHANGED <<db, stale>> /\ offered' \in {offered, NoOffer}
      BY <1>6 DEF Reattach, durable, history
    <2> QED BY <2>1, <2>2, <2>p, <2>d, GameFrame
  <1>7. ASSUME NEW c \in Conns, AskRejoin(c) PROVE GameIsTold'
    BY <1>7, ToldAskRejoin
  <1>8. ASSUME NEW c \in Conns, GiveUpRejoin(c) PROVE GameIsTold'
    <2>1. lane' = lane /\ lane'.work = lane.work
      BY <1>8 DEF GiveUpRejoin
    <2>2. phase' \in {"lobby", "starting", "running"} =>
            phase' = phase /\ UNCHANGED <<participants, timeline, rejoins, gone, presence>>
      BY <1>8 DEF GiveUpRejoin, live
    <2>d. UNCHANGED <<db, stale>> /\ offered' \in {offered, NoOffer}
      BY <1>8 DEF GiveUpRejoin, durable, history
    <2> QED BY <2>1, <2>2, <2>d, GameFrame
  <1>9. ASSUME NEW c \in Conns, Leave(c) PROVE GameIsTold'
    <2>1. lane' = lane /\ lane'.work = lane.work
      BY <1>9 DEF Leave
    <2>2. phase' \in {"lobby", "starting", "running"} =>
            phase' = phase /\ UNCHANGED <<participants, timeline, rejoins, gone, presence>>
      BY <1>9 DEF Leave, live
    <2>d. UNCHANGED <<db, stale>> /\ offered' \in {offered, NoOffer}
      BY <1>9 DEF Leave, durable, history
    <2> QED BY <2>1, <2>2, <2>d, GameFrame
  <1>10. ASSUME NEW c \in Conns, LeaveSettled(c) PROVE GameIsTold'
    BY <1>10, ToldLeave
  <1>11. ASSUME NEW c \in Conns, Disconnect(c) PROVE GameIsTold'
    <2>1. lane' = lane /\ lane'.work = lane.work
      BY <1>11 DEF Disconnect
    <2>2. phase' \in {"lobby", "starting", "running"} =>
            phase' = phase /\ UNCHANGED <<participants, timeline, rejoins, gone>>
      BY <1>11 DEF Disconnect, LeaveLobby, live
    <2>p. \A u \in participants : presence'[u] = "disconnected" <=> presence[u] = "disconnected"
      BY <1>11 DEF TypeInv, TypeOK, Disconnect, Detaches, LeaveLobby
    <2>d. UNCHANGED <<db, stale>> /\ offered' \in {offered, NoOffer}
      BY <1>11 DEF Disconnect, durable, history
    <2> QED BY <2>1, <2>2, <2>p, <2>d, GameFrame
  <1>12. ASSUME NEW c \in Conns, EndConnection(c) PROVE GameIsTold'
    <2>1. lane' = lane /\ lane'.work = lane.work
      BY <1>12 DEF EndConnection
    <2>2. phase' \in {"lobby", "starting", "running"} =>
            phase' = phase /\ UNCHANGED <<participants, timeline, rejoins, gone, presence>>
      BY <1>12 DEF EndConnection, live
    <2>d. UNCHANGED <<db, stale>> /\ offered' \in {offered, NoOffer}
      BY <1>12 DEF EndConnection, durable, history
    <2> QED BY <2>1, <2>2, <2>d, GameFrame
  <1>13. ASSUME RequestStart PROVE GameIsTold'
    <2>1. lane'.at # "completing" /\ lane.at # "completing"
      BY <1>13, IdleLaneType DEF TypeInv, TypeOK, RequestStart, Lane, LaneAt
    <2>2. GameIsTold'
      <3>1. NothingIsToldYet'
        BY <1>13, <2>1 DEF RequestStart, Freeze, GameIsTold, NothingIsToldYet, LaneAt
      <3>2. CheckpointsAreConsistent'
        BY <1>13, <2>1 DEF RequestStart, durable, history, GameIsTold, CheckpointsAreConsistent, Consistent, LaneAt
      <3>3. phase' = "starting"
        BY <1>13, <2>1 DEF RequestStart, Freeze
      <3> QED BY <3>1, <3>2, <3>3 DEF GameIsTold
    <2> QED BY <2>2
  <1>14. ASSUME NEW expired \in SUBSET Users, TakeBoundary(expired) PROVE GameIsTold'
    BY <1>14, ToldTake
  <1>15. ASSUME CheckStart PROVE GameIsTold'
    <2>1. lane.at # "completing" /\ lane'.at # "completing" /\ lane'.work = lane.work
      BY <1>15, IdleLaneType DEF TypeInv, TypeOK, Lane, CheckStart, LaneAt,
          LaneTo
    <2>2. phase' \in {"lobby", "starting", "running"} =>
            phase' = phase /\ UNCHANGED <<participants, timeline, rejoins, gone, presence>>
      BY <1>15 DEF CheckStart, live
    <2>d. UNCHANGED <<db, stale>> /\ offered' \in {offered, NoOffer}
      BY <1>15 DEF CheckStart, durable, history
    <2> QED BY <2>1, <2>2, <2>d, GameFrame
  <1>16. ASSUME RunScript PROVE GameIsTold'
    <2>1. lane.at # "completing" /\ lane'.at # "completing" /\ lane'.work = lane.work
      BY <1>16, IdleLaneType DEF TypeInv, TypeOK, Lane, RunScript, LaneAt,
          LaneTo, LaneEnds
    <2>2. phase' \in {"lobby", "starting", "running"} =>
            phase' = phase /\ UNCHANGED <<participants, timeline, rejoins, gone, presence>>
      BY <1>16 DEF RunScript, live
    <2>d. UNCHANGED <<db, stale>> /\ offered' \in {offered, NoOffer}
      BY <1>16 DEF RunScript, durable, history
    <2> QED BY <2>1, <2>2, <2>d, GameFrame
  <1>17. ASSUME CommitStart PROVE GameIsTold'
    <2>1. lane'.work = lane.work /\ lane'.resumed = lane.resumed /\ lane.resumed = {} /\ lane.at # "completing"
      BY <1>17 DEF TypeInv, TypeOK, Lane, CommitStart, LaneTo, LaneAt, LaneInv, LaneIsTidy
    <2>2. UNCHANGED <<phase, participants, timeline, rejoins, gone, presence, offered, stale>>
      BY <1>17 DEF CommitStart, live, history
    <2>3. CASE UNCHANGED db
      <3>1. lane'.at # "completing"
        BY <1>17, <2>3 DEF TypeInv, TypeOK, Lane, CommitStart, LaneTo, Running, Lobby
      <3> QED BY <2>1, <2>2, <2>3, <3>1, GameFrame
    <2>4. CASE db.status = Lobby /\ db' = [db EXCEPT !.status = Running, !.roster = lane.roster,
                                                 !.gone = {}, !.disconnected = {}]
      <3>1. offered = NoOffer /\ db'.gone = {} /\ db'.disconnected = {}
        BY <2>4 DEF TypeInv, TypeOK, DurableIsCommitted
      <3>2. phase \in {"lobby", "starting"} => gone = {}
        BY <1>17, <2>1 DEF GameIsTold, NothingIsToldYet, LaneAt
      <3>3. CheckpointsAreConsistent'
        BY <2>1, <2>2, <3>1, <3>2 DEF CheckpointsAreConsistent, Consistent
      <3>4. NothingIsToldYet'
        BY <2>2, <3>2 DEF GameIsTold, NothingIsToldYet
      <3>5. phase' # "running"
        BY <1>17, <2>2 DEF CommitStart, LaneAt, LaneInv, AttemptsFreeze, StartAt
      <3> QED BY <3>3, <3>4, <3>5 DEF GameIsTold
    <2> QED BY <1>17, <2>3, <2>4 DEF CommitStart
  <1>18. ASSUME CheckLifetime PROVE GameIsTold'
    <2>1. lane.at # "completing" /\ lane'.at # "completing" /\ lane'.work = lane.work
      BY <1>18, IdleLaneType DEF TypeInv, TypeOK, Lane, CheckLifetime, LaneAt,
          LaneTo, LaneEnds
    <2>2. phase' \in {"lobby", "starting", "running"} =>
            phase' = phase /\ UNCHANGED <<participants, timeline, rejoins, gone, presence>>
      BY <1>18 DEF CheckLifetime, live
    <2>d. UNCHANGED <<db, stale>> /\ offered' \in {offered, NoOffer}
      BY <1>18 DEF CheckLifetime, durable, history
    <2> QED BY <2>1, <2>2, <2>d, GameFrame
  <1>19. ASSUME LoadRunning PROVE GameIsTold'
    <2>1. UNCHANGED <<db, phase, participants, timeline, rejoins, offered, stale>> /\ lane.at # "completing"
      BY <1>19 DEF LoadRunning, durable, history, LaneAt
    <2>2. \/ gone' = gone /\ lane'.at # "completing"
          \/ /\ gone' = db.gone /\ lane'.at = "completing"
             /\ lane'.roster = db.roster /\ lane'.resumed = db.disconnected
      BY <1>19 DEF TypeInv, TypeOK, Lane, LoadRunning, LaneTo, CommittedRoster
    <2>3. phase # "running"
      BY <1>19 DEF LoadRunning, LaneAt, LaneInv, AttemptsFreeze, StartAt
    <2>4. NothingIsToldYet'
      BY <2>1, <2>2 DEF GameIsTold, NothingIsToldYet, LaneAt
    <2>5. CheckpointsAreConsistent'
      BY <2>1, <2>2 DEF GameIsTold, CheckpointsAreConsistent, Consistent, LaneAt
    <2> QED BY <2>1, <2>3, <2>4, <2>5 DEF GameIsTold
  <1>20. ASSUME CompleteStart PROVE GameIsTold'
    <2>1. lane'.work = <<>> /\ lane'.at # "completing" /\ LaneAt("completing")
      BY <1>20, IdleLaneType DEF CompleteStart, LaneIdle
    <2>2. UNCHANGED <<timeline, rejoins, gone, db, offered, stale>>
      BY <1>20 DEF CompleteStart, live, durable, history
    <2>3. CheckpointsAreConsistent'
      BY <2>1, <2>2 DEF GameIsTold, CheckpointsAreConsistent, Consistent, LaneAt
    <2>4. CASE phase # "starting"
      <3>1. phase' = "ended"
        BY <1>20, <2>4 DEF CompleteStart, live, LaneAt, LaneInv, AttemptsFreeze, StartAt
      <3> QED BY <2>3, <3>1 DEF GameIsTold, NothingIsToldYet
    <2>5. CASE phase = "starting"
      <3>1. /\ phase' = "running" /\ participants' = lane.roster /\ timeline = <<>>
            /\ Consistent(gone, lane.resumed, lane.roster)
        BY <1>20, <2>1, <2>5 DEF CompleteStart, GameIsTold, NothingIsToldYet, CheckpointsAreConsistent
      <3>2. \A u \in lane.roster : presence'[u] = "disconnected" <=> u \in lane.resumed
        BY <1>20, <2>5 DEF CompleteStart, TypeInv, TypeOK, Lane
      <3>3. OperationsAreTidy'
        BY <2>1, <2>2, <3>1 DEF OperationsAreTidy, Tidy
      <3>4. \A x : Pending(x)' <=> FALSE
        BY <2>1, <2>2, <3>1 DEF Pending, Waits
      <3>5. PlayersAreTold'
        BY <2>2, <3>1, <3>2, <3>4 DEF PlayersAreTold, Consistent
      <3> QED BY <2>3, <3>1, <3>3, <3>5 DEF GameIsTold, NothingIsToldYet
    <2> QED BY <2>4, <2>5
  <1>21. ASSUME CancelStart PROVE GameIsTold'
    <2>1. lane'.at # "completing" /\ lane.at # "completing"
      BY <1>21, IdleLaneType DEF CancelStart, LaneIdle, LaneAt
    <2>2. /\ UNCHANGED <<timeline, rejoins, gone, db, offered, stale>>
          /\ phase' = phase \/ (phase = "starting" /\ phase' = "lobby")
      BY <1>21 DEF CancelStart, live, durable, history
    <2>3. phase' # "running"
      BY <1>21, <2>2 DEF CancelStart, LaneAt, LaneInv, AttemptsFreeze, StartAt
    <2>4. CheckpointsAreConsistent' /\ NothingIsToldYet'
      BY <2>1, <2>2 DEF GameIsTold, CheckpointsAreConsistent, NothingIsToldYet, Consistent, LaneAt
    <2> QED BY <2>3, <2>4 DEF GameIsTold
  <1>22. ASSUME NEW executed \in 0..Len(lane.work), NEW accepted \in SUBSET Users,
             NEW finished \in BOOLEAN,
             CommitBoundary(executed, accepted, finished) PROVE GameIsTold'
    BY <1>22, ToldCommit
  <1>23. ASSUME FailBoundary PROVE GameIsTold'
    BY <1>23, ToldFail
  <1>24. ASSUME OfferCheckpoint PROVE GameIsTold'
    <2>1. lane.work = <<>> /\ lane'.work = lane.work /\ lane'.at # "completing" /\ lane.at # "completing"
      BY <1>24 DEF TypeInv, TypeOK, Lane, OfferCheckpoint, LaneTo, LaneAt, LaneInv, LaneIsTidy, EndingAt
    <2>2. UNCHANGED <<db, phase, participants, timeline, rejoins, gone, presence, stale>>
      BY <1>24 DEF OfferCheckpoint, live, history
    <2>3. CASE offered' = offered
      BY <2>1, <2>2, <2>3, GameFrame
    <2>4. CASE phase = "running" /\ offered' = Checkpoint
      <3>1. PlayersAreTold /\ OperationsAreTidy /\ participants = db.roster
        BY <2>4 DEF GameIsTold, DurableIsCommitted, Committed
      <3>2. \A x : Pending(x) <=> Waits(timeline, x)
        BY <2>1 DEF Pending, Waits
      <3>3. /\ offered'.gone = gone
            /\ offered'.disconnected = {u \in participants : /\ presence[u] = "disconnected"
                                                            /\ ~Waits(timeline, DisconnectedOp(u))}
        BY <2>4 DEF Checkpoint
      <3>4. Consistent(offered'.gone, offered'.disconnected, db.roster)
        BY <3>1, <3>2, <3>3 DEF PlayersAreTold, Consistent
      <3>5. CheckpointsAreConsistent'
        BY <2>1, <2>2, <3>4 DEF GameIsTold, CheckpointsAreConsistent, Consistent, LaneAt
      <3>6. OperationsAreTidy'
        BY <2>1, <2>2, <3>1 DEF OperationsAreTidy, Tidy, InOrder
      <3>7. \A x : Pending(x)' <=> Pending(x)
        BY <2>1, <2>2 DEF Pending, Waits
      <3>8. PlayersAreTold'
        BY <2>2, <3>1, <3>7 DEF PlayersAreTold, DisconnectedOp, RejoinOp
      <3> QED BY <2>2, <2>4, <3>5, <3>6, <3>8 DEF GameIsTold, NothingIsToldYet
    <2> QED BY <1>24, <2>3, <2>4 DEF OfferCheckpoint
  <1>25. ASSUME EndIfAbandoned PROVE GameIsTold'
    <2>1. lane.at # "completing" /\ lane'.at # "completing" /\ lane'.work = lane.work
      BY <1>25, IdleLaneType DEF TypeInv, TypeOK, Lane, EndIfAbandoned, LaneAt,
          Abandoned, LaneEnds, LaneIdle, LaneInv, LaneIsTidy, EndingAt
    <2>2. phase' \in {"lobby", "starting", "running"} =>
            phase' = phase /\ UNCHANGED <<participants, timeline, rejoins, gone, presence>>
      BY <1>25 DEF EndIfAbandoned, live
    <2>d. UNCHANGED <<db, stale>> /\ offered' \in {offered, NoOffer}
      BY <1>25 DEF EndIfAbandoned, durable, history
    <2> QED BY <2>1, <2>2, <2>d, GameFrame
  <1>26. ASSUME FinishGame PROVE GameIsTold'
    <2>1. lane.at # "completing" /\ lane'.at # "completing" /\ lane'.work = lane.work
      BY <1>26, IdleLaneType DEF TypeInv, TypeOK, Lane, FinishGame, LaneAt,
          LaneInv, LaneIsTidy
    <2>2. phase' \in {"lobby", "starting", "running"} =>
            phase' = phase /\ UNCHANGED <<participants, timeline, rejoins, gone, presence>>
      BY <1>26 DEF FinishGame, live
    <2>d. UNCHANGED <<db, stale>> /\ offered' \in {offered, NoOffer}
      BY <1>26 DEF FinishGame, durable, history
    <2> QED BY <2>1, <2>2, <2>d, GameFrame
  <1>27. ASSUME EndDurably PROVE GameIsTold'
    <2>1. lane.at # "completing" /\ lane'.at # "completing" /\ lane'.work = lane.work
      BY <1>27, IdleLaneType DEF TypeInv, TypeOK, Lane, EndDurably, LaneAt,
          Answer, LaneTo
    <2>2. phase' \in {"lobby", "starting", "running"} =>
            phase' = phase /\ UNCHANGED <<participants, timeline, rejoins, gone, presence>>
      BY <1>27 DEF EndDurably, live
    <2>d. /\ db'.gone = db.gone /\ db'.disconnected = db.disconnected /\ db'.roster = db.roster
          /\ UNCHANGED <<offered, stale>>
      BY <1>27 DEF TypeInv, TypeOK, EndDurably, EndedFor, history
    <2> QED BY <2>1, <2>2, <2>d, GameFrame
  <1>28. ASSUME TellEnd PROVE GameIsTold'
    <2>1. lane.at # "completing" /\ lane'.at # "completing"
      BY <1>28, IdleLaneType DEF TellEnd, LaneAt, LaneIdle
    <2>2. phase' = "ended" /\ UNCHANGED <<db, offered, stale>>
      BY <1>28 DEF TellEnd, End, live, durable, history
    <2> QED BY <2>1, <2>2, GameFrame
  <1>29. ASSUME EndFailed PROVE GameIsTold'
    <2>1. lane.at # "completing" /\ lane'.at # "completing"
      BY <1>29, IdleLaneType DEF TypeInv, TypeOK, Lane, EndFailed, LaneAt, LaneTo, LaneIdle
    <2>2. UNCHANGED <<db, stale, offered>>
      BY <1>29 DEF EndFailed, durable, history
    <2>3. CASE UNCHANGED live /\ (phase = "running" => lane'.work = lane.work)
      <3>1. CheckpointsAreConsistent'
        BY <2>1, <2>2 DEF GameIsTold, CheckpointsAreConsistent, Consistent, LaneAt
      <3>2. NothingIsToldYet'
        BY <2>1, <2>3 DEF live, GameIsTold, NothingIsToldYet, LaneAt
      <3>3. CASE phase = "running"
        BY <2>1, <2>2, <2>3, <3>3, GameFrame DEF live
      <3>4. CASE phase # "running"
        BY <2>3, <3>1, <3>2, <3>4 DEF live, GameIsTold
      <3> QED BY <3>3, <3>4
    <2>4. CASE phase' = "ended"
      BY <2>1, <2>2, <2>4, GameFrame
    <2>5. CASE lane.cause \in AbortCauses /\ LaneIdle /\ IF phase = "running" THEN End("closed", {}) ELSE UNCHANGED <<live, conn>>
      BY <2>3, <2>4, <2>5 DEF End
    <2>6. CASE LaneTo("cancelling") /\ UNCHANGED <<live, conn>>
      <3>1. lane'.work = lane.work
        BY <2>6 DEF TypeInv, TypeOK, Lane, LaneTo
      <3> QED BY <2>3, <2>6, <3>1
    <2>7. CASE lane.cause \notin AbortCauses /\ LaneIdle /\ UNCHANGED <<live, conn>>
      <3>1. lane'.work = <<>> /\ lane.work = <<>>
        BY <1>29, <2>7, IdleLaneType DEF EndFailed, LaneAt, LaneIdle, LaneInv, LaneIsTidy, AbortCauses
      <3> QED BY <2>3, <2>7, <3>1
    <2> QED BY <1>29, <2>5, <2>6, <2>7 DEF EndFailed
  <1>30. ASSUME WriteCheckpoint PROVE GameIsTold'
    <2>1. UNCHANGED <<phase, participants, timeline, rejoins, gone, presence, lane, stale>> /\ offered' = NoOffer
      BY <1>30 DEF WriteCheckpoint, live, history
    <2>2. CASE UNCHANGED db
      BY <2>1, <2>2, GameFrame
    <2>3. CASE db' = [db EXCEPT !.gone = offered.gone, !.disconnected = offered.disconnected]
      <3>1. db'.gone = offered.gone /\ db'.disconnected = offered.disconnected /\ db'.roster = db.roster
        BY <2>3 DEF TypeInv, TypeOK
      <3>2. Consistent(offered.gone, offered.disconnected, db.roster)
        BY <1>30 DEF WriteCheckpoint, GameIsTold, CheckpointsAreConsistent
      <3>3. CheckpointsAreConsistent'
        BY <2>1, <3>1, <3>2 DEF GameIsTold, CheckpointsAreConsistent, Consistent, LaneAt
      <3>4. NothingIsToldYet'
        BY <2>1 DEF GameIsTold, NothingIsToldYet, LaneAt
      <3>5. phase = "running" => OperationsAreTidy'
        BY <2>1 DEF GameIsTold, OperationsAreTidy, Tidy, InOrder
      <3>6. \A x : Pending(x)' <=> Pending(x)
        BY <2>1 DEF Pending, Waits
      <3>7. phase = "running" => PlayersAreTold'
        BY <2>1, <3>6 DEF GameIsTold, PlayersAreTold, DisconnectedOp, RejoinOp
      <3> QED BY <2>1, <3>3, <3>4, <3>5, <3>7 DEF GameIsTold
    <2> QED BY <1>30, <2>2, <2>3 DEF WriteCheckpoint
  <1>31. ASSUME NEW cause \in AskedCauses, AskEnd(cause) PROVE GameIsTold'
    <2>1. lane.at # "completing" /\ lane'.at # "completing" /\ lane'.work = lane.work
      BY <1>31, IdleLaneType DEF TypeInv, TypeOK, Lane, AskEnd, LaneAt, LaneInv,
          LaneIsTidy
    <2>2. phase' \in {"lobby", "starting", "running"} =>
            phase' = phase /\ UNCHANGED <<participants, timeline, rejoins, gone, presence>>
      BY <1>31 DEF AskEnd, live
    <2>d. UNCHANGED <<db, stale>> /\ offered' \in {offered, NoOffer}
      BY <1>31 DEF AskEnd, durable, history
    <2> QED BY <2>1, <2>2, <2>d, GameFrame
  <1>32. ASSUME EndElsewhere PROVE GameIsTold'
    <2>1. lane' = lane /\ lane'.work = lane.work
      BY <1>32 DEF EndElsewhere
    <2>2. phase' \in {"lobby", "starting", "running"} =>
            phase' = phase /\ UNCHANGED <<participants, timeline, rejoins, gone, presence>>
      BY <1>32 DEF EndElsewhere, End, live
    <2>d. UNCHANGED <<db, stale>> /\ offered' \in {offered, NoOffer}
      BY <1>32 DEF EndElsewhere, durable, history
    <2> QED BY <2>1, <2>2, <2>d, GameFrame
  <1>33. ASSUME Reconcile PROVE GameIsTold'
    <2>1. lane' = lane /\ lane'.work = lane.work
      BY <1>33 DEF Reconcile
    <2>2. phase' \in {"lobby", "starting", "running"} =>
            phase' = phase /\ UNCHANGED <<participants, timeline, rejoins, gone, presence>>
      BY <1>33 DEF Reconcile, live
    <2>d. /\ db'.gone = db.gone /\ db'.disconnected = db.disconnected /\ db'.roster = db.roster
          /\ UNCHANGED <<offered, stale>>
      BY <1>33 DEF TypeInv, TypeOK, Reconcile, EndedFor, history
    <2> QED BY <2>1, <2>2, <2>d, GameFrame
  <1>34. ASSUME Retire PROVE GameIsTold'
    <2>1. lane' = lane /\ lane'.work = lane.work
      BY <1>34 DEF Retire
    <2>2. phase' \in {"lobby", "starting", "running"} =>
            phase' = phase /\ UNCHANGED <<participants, timeline, rejoins, gone, presence>>
      BY <1>34 DEF Retire, End, live
    <2>d. UNCHANGED <<db, stale>> /\ offered' \in {offered, NoOffer}
      BY <1>34 DEF Retire, durable, history
    <2> QED BY <2>1, <2>2, <2>d, GameFrame
  <1>35. ASSUME Crash PROVE GameIsTold'
    <2>1. /\ phase' = "lobby" /\ timeline' = <<>> /\ rejoins' = {} /\ gone' = {}
          /\ lane' = IdleLane /\ offered' = NoOffer /\ UNCHANGED <<db, stale>>
      BY <1>35 DEF Crash, FreshController, history
    <2>2. NothingIsToldYet'
      BY <2>1 DEF NothingIsToldYet
    <2>3. CheckpointsAreConsistent'
      BY <2>1 DEF GameIsTold, CheckpointsAreConsistent, Consistent
    <2> QED BY <2>1, <2>2, <2>3 DEF GameIsTold
  <1>36. ASSUME Renew PROVE GameIsTold'
    <2>1. /\ phase' = "lobby" /\ timeline' = <<>> /\ rejoins' = {} /\ gone' = {}
          /\ lane' = IdleLane /\ offered' = NoOffer /\ UNCHANGED <<db, stale>>
      BY <1>36 DEF Renew, FreshController, history
    <2>2. NothingIsToldYet'
      BY <2>1 DEF NothingIsToldYet
    <2>3. CheckpointsAreConsistent'
      BY <2>1 DEF GameIsTold, CheckpointsAreConsistent, Consistent
    <2> QED BY <2>1, <2>2, <2>3 DEF GameIsTold
  <1>37. ASSUME UNCHANGED vars PROVE GameIsTold'
    BY <1>37, <1>0 DEF vars, durable, live, bounds, history
  <1> QED BY <1>1, <1>2, <1>3, <1>4, <1>5, <1>6, <1>7, <1>8, <1>9, <1>10,
        <1>11, <1>12, <1>13, <1>14, <1>15, <1>16, <1>17, <1>18, <1>19, <1>20,
        <1>21, <1>22, <1>23, <1>24, <1>25, <1>26, <1>27, <1>28, <1>29, <1>30,
        <1>31, <1>32, <1>33, <1>34, <1>35, <1>36, <1>37
        DEF Next, PlayerStep, AttachStep, LaneStep

\* A user stays as connected as they were while their connection stays.
LEMMA TransportStays ==
  ASSUME NEW u \in Users, TransportIsTold(u), presence'[u] = presence[u], players'[u] = players[u],
         slipped \subseteq slipped', stale \subseteq stale',
         players[u] # NoConn =>
           /\ conn'[players[u]].at \in OpenAt <=> conn[players[u]].at \in OpenAt
           /\ conn'[players[u]].at = "closing" <=> conn[players[u]].at = "closing"
  PROVE  TransportIsTold(u)'
  BY DEF TransportIsTold, IsOpen

\* Presence stays as connected as it was while only other connections move.
LEMMA AttachedFrame ==
  ASSUME TypeInv, AttachedIsConnected,
         phase' = "running" =>
           /\ phase = "running"
           /\ UNCHANGED <<participants, presence, players>>
           /\ \A d \in Conns : IsCurrent(d) =>
                /\ conn'[d].at \in OpenAt <=> conn[d].at \in OpenAt
                /\ conn'[d].at = "closing" <=> conn[d].at = "closing",
         slipped \subseteq slipped', stale \subseteq stale'
  PROVE  AttachedIsConnected'
  <1> SUFFICES ASSUME phase' = "running", NEW u \in participants' PROVE TransportIsTold(u)'
    BY DEF AttachedIsConnected
  <1>1. u \in participants /\ u \in Users /\ TransportIsTold(u)
    BY DEF AttachedIsConnected, TypeInv, TypeOK
  <1>2. players[u] # NoConn => players[u] \in Conns /\ IsCurrent(players[u])
    BY <1>1 DEF TypeInv, TypeOK, IsCurrent
  <1>3. players[u] # NoConn =>
           /\ conn'[players[u]].at \in OpenAt <=> conn[players[u]].at \in OpenAt
           /\ conn'[players[u]].at = "closing" <=> conn[players[u]].at = "closing"
    BY <1>2
  <1> QED BY <1>1, <1>3, TransportStays

\* Every step keeps presence what the connections are.
LEMMA AttachedStep ==
  /\ TypeInv /\ LaneInv /\ ConnectionsAreOwned /\ LobbyIsConnected /\ GameIsTold
  /\ AttachedIsConnected /\ [Next]_vars
  => AttachedIsConnected'
  <1> SUFFICES ASSUME TypeInv, LaneInv, ConnectionsAreOwned, LobbyIsConnected, GameIsTold,
                      AttachedIsConnected, [Next]_vars
               PROVE  AttachedIsConnected'
    OBVIOUS
  <1>c. \A d \in Conns :
          /\ IsCurrent(d) => /\ players[conn[d].user] = d /\ conn[d].user \in Users
                             /\ conn[d].at \notin AttachAt \cup {"unused", "replaced"}
          /\ conn[d].at \in {"open", "leaving"} => IsCurrent(d)
          /\ lane.for = d => conn[d].at = "recovering" /\ ~IsCurrent(d)
    BY CurrentIsOwned
  <1>0. ASSUME UNCHANGED <<phase, participants, presence, players, conn, slipped, stale>> PROVE AttachedIsConnected'
    BY <1>0 DEF AttachedIsConnected, TransportIsTold, IsOpen
  <1>1. ASSUME NEW c \in Conns, NEW u \in Users, Connect(c, u) PROVE AttachedIsConnected'
    <2>1. UNCHANGED <<phase, participants, presence, players, slipped, stale>> /\ conn[c].at = "unused"
      BY <1>1 DEF Connect, live, history
    <2>2. \A d \in Conns : d # c => conn'[d] = conn[d]
      BY <1>1 DEF TypeInv, TypeOK, Connect
    <2>3. ~IsCurrent(c)
      BY <1>c, <2>1
    <2>4. \A d \in Conns : IsCurrent(d) =>
            /\ conn'[d].at \in OpenAt <=> conn[d].at \in OpenAt
            /\ conn'[d].at = "closing" <=> conn[d].at = "closing"
      BY <2>2, <2>3
    <2> QED BY <2>1, <2>4, AttachedFrame
  <1>2. ASSUME NEW c \in Conns, CheckEligibility(c) PROVE AttachedIsConnected'
    <2>1. /\ phase' = "running" => phase = "running" /\ UNCHANGED <<participants, presence, players>>
          /\ slipped \subseteq slipped' /\ stale \subseteq stale'
      BY <1>2 DEF CheckEligibility, live, history
    <2>2. \A d \in Conns : IsCurrent(d) =>
            /\ conn'[d].at \in OpenAt <=> conn[d].at \in OpenAt
            /\ conn'[d].at = "closing" <=> conn[d].at = "closing"
      BY <1>2, <1>c, MoveToMoves DEF TypeInv, TypeOK, ConnType,
          CheckEligibility, OpenAt, AttachAt
    <2> QED BY <2>1, <2>2, AttachedFrame
  <1>3. ASSUME NEW c \in Conns, JoinLobby(c) PROVE AttachedIsConnected'
    <2>1. CASE phase # "running"
      BY <1>3, <2>1 DEF JoinLobby, AttachedIsConnected
    <2>2. CASE phase = "running"
      <3>1. MoveTo(c, "closed") /\ UNCHANGED <<phase, participants, presence, players, slipped, stale>>
        BY <1>3, <2>2 DEF JoinLobby, history
      <3>2. \A d \in Conns : IsCurrent(d) =>
              /\ conn'[d].at \in OpenAt <=> conn[d].at \in OpenAt
              /\ conn'[d].at = "closing" <=> conn[d].at = "closing"
        BY <1>3, <1>c, <3>1, MoveToMoves DEF TypeInv, TypeOK, ConnType, JoinLobby, OpenAt, AttachAt
      <3> QED BY <3>1, <3>2, AttachedFrame
    <2> QED BY <2>1, <2>2
  <1>4. ASSUME NEW c \in Conns, RecoveryNotNeeded(c) PROVE AttachedIsConnected'
    <2>1. /\ phase' = "running" => phase = "running" /\ UNCHANGED <<participants, presence, players>>
          /\ slipped \subseteq slipped' /\ stale \subseteq stale'
      BY <1>4 DEF RecoveryNotNeeded, live, history
    <2>2. \A d \in Conns : IsCurrent(d) =>
            /\ conn'[d].at \in OpenAt <=> conn[d].at \in OpenAt
            /\ conn'[d].at = "closing" <=> conn[d].at = "closing"
      BY <1>4, <1>c, MoveToMoves DEF TypeInv, TypeOK, ConnType,
          RecoveryNotNeeded, OpenAt, AttachAt
    <2> QED BY <2>1, <2>2, AttachedFrame
  <1>5. ASSUME NEW c \in Conns, RequestRecovery(c) PROVE AttachedIsConnected'
    <2>1. CASE phase' = "starting"
      BY <2>1 DEF AttachedIsConnected
    <2>2. CASE phase' = "finishing"
      BY <2>2 DEF AttachedIsConnected
    <2> QED BY <1>5, <2>1, <2>2 DEF RequestRecovery, Freeze, live
  <1>6. ASSUME NEW c \in Conns, Reattach(c) PROVE AttachedIsConnected'
    <2>a. CASE UNCHANGED live /\ \E at \in {"checking", "closed", "asking"} : MoveTo(c, at)
      <3>0. PICK at \in {"checking", "closed", "asking"} : MoveTo(c, at)
        BY <2>a
      <3>1. UNCHANGED <<phase, participants, presence, players, slipped, stale>>
        BY <1>6, <2>a DEF Reattach, live, history
      <3>2. \A d \in Conns : IsCurrent(d) =>
              /\ conn'[d].at \in OpenAt <=> conn[d].at \in OpenAt
              /\ conn'[d].at = "closing" <=> conn[d].at = "closing"
        BY <1>6, <1>c, <3>0, MoveToMoves DEF TypeInv, TypeOK, ConnType, Reattach, OpenAt, AttachAt
      <3> QED BY <3>1, <3>2, AttachedFrame
    <2>b. CASE /\ MoveReplacing(c, "open", players[conn[c].user])
               /\ players' = [players EXCEPT ![conn[c].user] = c]
               /\ presence' = [presence EXCEPT ![conn[c].user] = "attached"]
               /\ UNCHANGED <<phase, participants, slipped, stale>>
      <3> SUFFICES ASSUME phase' = "running", NEW v \in participants' PROVE TransportIsTold(v)'
        BY DEF AttachedIsConnected
      <3>0. /\ phase = "running" /\ v \in participants /\ v \in Users /\ TransportIsTold(v)
            /\ players[v] # NoConn => /\ players[v] \in Conns /\ IsCurrent(players[v])
                                     /\ conn[players[v]].user = v
        <4>1. phase = "running" /\ participants' = participants
          BY <2>b
        <4>2. players[v] # NoConn => IsCurrent(players[v]) /\ conn[players[v]].user = v
          BY <4>1 DEF IsCurrent, ConnectionsAreOwned, TypeInv, TypeOK
        <4> QED BY <4>1, <4>2 DEF AttachedIsConnected, TypeInv, TypeOK
      <3>1. PICK u \in Users : u = conn[c].user
        BY <1>6 DEF TypeInv, UsersConnect, Reattach
      <3>2. conn[c].at \in AttachAt
        BY <1>6 DEF Reattach, AttachAt
      <3>3. CASE v = u
        <4>1. players'[v] = c /\ presence'[v] = "attached"
          BY <2>b, <3>0, <3>1, <3>3 DEF TypeInv, TypeOK
        <4>2. conn'[c].at = "open"
          BY <2>b, MoveReplacingMoves DEF TypeInv, TypeOK, ConnType
        <4> QED BY <4>1, <4>2 DEF TransportIsTold, IsOpen, OpenAt, NoConn, Conns
      <3>4. CASE v # u
        <4>1. players'[v] = players[v] /\ presence'[v] = presence[v]
          BY <2>b, <3>0, <3>1, <3>4 DEF TypeInv, TypeOK
        <4>2. ASSUME players[v] # NoConn PROVE conn'[players[v]].at = conn[players[v]].at
          <5>1. players[v] # c
            BY <3>0, <3>1, <3>4, <4>2
          <5>2. players[v] # players[u]
            <6>1. players[u] # NoConn => conn[players[u]].user = u
              BY DEF ConnectionsAreOwned
            <6> QED BY <3>0, <3>4, <4>2, <6>1
          <5> QED BY <2>b, <3>0, <3>1, <4>2, <5>1, <5>2, MoveReplacingMoves DEF TypeInv, TypeOK, ConnType
        <4> QED BY <2>b, <3>0, <4>1, <4>2, TransportStays
      <3> QED BY <3>3, <3>4
    <2> QED BY <1>6, <2>a, <2>b DEF Reattach, history
  <1>7. ASSUME NEW c \in Conns, AskRejoin(c) PROVE AttachedIsConnected'
    <2>1. /\ phase' = "running" => phase = "running" /\ UNCHANGED <<participants, presence, players>>
          /\ slipped \subseteq slipped' /\ stale \subseteq stale'
      BY <1>7 DEF AskRejoin, live, history
    <2>2. \A d \in Conns : IsCurrent(d) =>
            /\ conn'[d].at \in OpenAt <=> conn[d].at \in OpenAt
            /\ conn'[d].at = "closing" <=> conn[d].at = "closing"
      BY <1>7, <1>c, MoveToMoves DEF TypeInv, TypeOK, ConnType, AskRejoin,
          OpenAt, AttachAt
    <2> QED BY <2>1, <2>2, AttachedFrame
  <1>8. ASSUME NEW c \in Conns, GiveUpRejoin(c) PROVE AttachedIsConnected'
    <2>1. /\ phase' = "running" => phase = "running" /\ UNCHANGED <<participants, presence, players>>
          /\ slipped \subseteq slipped' /\ stale \subseteq stale'
      BY <1>8 DEF GiveUpRejoin, live, history
    <2>2. \A d \in Conns : IsCurrent(d) =>
            /\ conn'[d].at \in OpenAt <=> conn[d].at \in OpenAt
            /\ conn'[d].at = "closing" <=> conn[d].at = "closing"
      BY <1>8, <1>c, MoveToMoves DEF TypeInv, TypeOK, ConnType, GiveUpRejoin,
          OpenAt, AttachAt
    <2> QED BY <2>1, <2>2, AttachedFrame
  <1>9. ASSUME NEW c \in Conns, Leave(c) PROVE AttachedIsConnected'
    <2>1. /\ phase' = "running" => phase = "running" /\ UNCHANGED <<participants, presence, players>>
          /\ slipped \subseteq slipped' /\ stale \subseteq stale'
      BY <1>9 DEF Leave, live, history
    <2>2. \A d \in Conns : IsCurrent(d) =>
            /\ conn'[d].at \in OpenAt <=> conn[d].at \in OpenAt
            /\ conn'[d].at = "closing" <=> conn[d].at = "closing"
      BY <1>9, <1>c, MoveToMoves DEF TypeInv, TypeOK, ConnType, Leave, OpenAt,
          AttachAt
    <2> QED BY <2>1, <2>2, AttachedFrame
  <1>10. ASSUME NEW c \in Conns, LeaveSettled(c) PROVE AttachedIsConnected'
    <2> SUFFICES ASSUME phase' = "running", NEW v \in participants' PROVE TransportIsTold(v)'
      BY DEF AttachedIsConnected
    <2>0. /\ phase = "running" /\ v \in participants /\ v \in Users /\ TransportIsTold(v)
          /\ players[v] # NoConn => /\ players[v] \in Conns /\ IsCurrent(players[v])
                                   /\ conn[players[v]].user = v
      <3>1. phase = "running" /\ participants' = participants
        BY <1>10 DEF LeaveSettled, LeaveLobby, live
      <3>2. players[v] # NoConn => IsCurrent(players[v]) /\ conn[players[v]].user = v
        BY <3>1 DEF IsCurrent, ConnectionsAreOwned, TypeInv, TypeOK
      <3> QED BY <3>1, <3>2 DEF AttachedIsConnected, TypeInv, TypeOK
    <2>1. UNCHANGED <<players, slipped, stale>>
      BY <1>10, <2>0 DEF LeaveSettled, history
    <2>2. CASE players[v] = c
      <3>1. c # NoConn /\ conn[c].user = v /\ IsCurrent(c) /\ PlaysHere(v)
        BY <2>0, <2>2 DEF PlaysHere, NoConn, Conns
      <3>2. conn[c].at \in {"open", "leaving"} /\ IsOpen(c)
        BY <1>10, <1>c, <3>1 DEF LeaveSettled, IsOpen, OpenAt
      <3>3. conn'[c].at = "closing"
        BY <1>10, <2>0, <3>2, MoveToMoves DEF TypeInv, TypeOK, ConnType, LeaveSettled
      <3>4. presence'[v] # "attached"
        BY <1>10, <2>0, <3>1 DEF TypeInv, TypeOK, LeaveSettled
      <3> QED BY <2>1, <2>2, <3>3, <3>4 DEF TransportIsTold
    <2>3. CASE players[v] # c
      <3>1. players[v] # NoConn => conn'[players[v]].at = conn[players[v]].at
        BY <1>10, <2>0, <2>3, MoveToMoves DEF TypeInv, TypeOK, ConnType, LeaveSettled
      <3>2. IsCurrent(c) => conn[c].user # v
        BY <1>c, <2>3
      <3>3. presence'[v] = presence[v]
        BY <1>10, <2>0, <3>2 DEF TypeInv, TypeOK, LeaveSettled
      <3> QED BY <2>0, <2>1, <3>1, <3>3, TransportStays
    <2> QED BY <2>2, <2>3
  <1>11. ASSUME NEW c \in Conns, Disconnect(c) PROVE AttachedIsConnected'
    <2> SUFFICES ASSUME phase' = "running", NEW v \in participants' PROVE TransportIsTold(v)'
      BY DEF AttachedIsConnected
    <2>0. /\ phase = "running" /\ v \in participants /\ v \in Users /\ TransportIsTold(v)
          /\ players[v] # NoConn => /\ players[v] \in Conns /\ IsCurrent(players[v])
                                   /\ conn[players[v]].user = v
      <3>1. phase = "running" /\ participants' = participants
        BY <1>11 DEF Disconnect, LeaveLobby, live
      <3>2. players[v] # NoConn => IsCurrent(players[v]) /\ conn[players[v]].user = v
        BY <3>1 DEF IsCurrent, ConnectionsAreOwned, TypeInv, TypeOK
      <3> QED BY <3>1, <3>2 DEF AttachedIsConnected, TypeInv, TypeOK
    <2>1. UNCHANGED <<players, slipped, stale>>
      BY <1>11, <2>0 DEF Disconnect, history
    <2>2. CASE players[v] = c
      <3>1. c # NoConn /\ conn[c].user = v /\ IsCurrent(c) /\ PlaysHere(v)
        BY <2>0, <2>2 DEF PlaysHere, NoConn, Conns
      <3>2. conn[c].at \in {"open", "leaving"} /\ IsOpen(c)
        BY <1>11, <1>c, <3>1 DEF Disconnect, IsOpen, OpenAt
      <3>3. conn'[c].at = "closing"
        BY <1>11, <2>0, <3>2, MoveToMoves DEF TypeInv, TypeOK, ConnType, Disconnect
      <3>4. presence'[v] # "attached"
        BY <1>11, <2>0, <3>1 DEF TypeInv, TypeOK, Disconnect, Detaches
      <3> QED BY <2>1, <2>2, <3>3, <3>4 DEF TransportIsTold
    <2>3. CASE players[v] # c
      <3>1. players[v] # NoConn => conn'[players[v]].at = conn[players[v]].at
        BY <1>11, <2>0, <2>3, MoveToMoves DEF TypeInv, TypeOK, ConnType, Disconnect
      <3>2. IsCurrent(c) => conn[c].user # v
        BY <1>c, <2>3
      <3>3. presence'[v] = presence[v]
        BY <1>11, <2>0, <3>2 DEF TypeInv, TypeOK, Disconnect, Detaches
      <3> QED BY <2>0, <2>1, <3>1, <3>3, TransportStays
    <2> QED BY <2>2, <2>3
  <1>12. ASSUME NEW c \in Conns, EndConnection(c) PROVE AttachedIsConnected'
    <2> SUFFICES ASSUME phase' = "running", NEW v \in participants' PROVE TransportIsTold(v)'
      BY DEF AttachedIsConnected
    <2>0. /\ phase = "running" /\ v \in participants /\ v \in Users /\ TransportIsTold(v)
          /\ players[v] # NoConn => /\ players[v] \in Conns /\ IsCurrent(players[v])
                                   /\ conn[players[v]].user = v
      <3>1. phase = "running" /\ participants' = participants
        BY <1>12 DEF EndConnection, LeaveLobby, live
      <3>2. players[v] # NoConn => IsCurrent(players[v]) /\ conn[players[v]].user = v
        BY <3>1 DEF IsCurrent, ConnectionsAreOwned, TypeInv, TypeOK
      <3> QED BY <3>1, <3>2 DEF AttachedIsConnected, TypeInv, TypeOK
    <2>1. UNCHANGED <<presence, players, stale>> /\ slipped \subseteq slipped'
      BY <1>12 DEF EndConnection, live
    <2>2. CASE players[v] = c
      <3>1. c # NoConn /\ conn'[c].at = "closed"
        BY <1>12, MoveToMoves DEF TypeInv, TypeOK, ConnType, EndConnection, NoConn, Conns
      <3>2. presence[v] = "attached" => c \in slipped'
        BY <1>12, <2>0, <2>2, <3>1 DEF EndConnection, TransportIsTold
      <3> QED BY <2>1, <2>2, <3>1, <3>2 DEF TransportIsTold, IsOpen, OpenAt
    <2>3. CASE players[v] # c
      <3>1. players[v] # NoConn => conn'[players[v]].at = conn[players[v]].at
        BY <1>12, <2>0, <2>3, MoveToMoves DEF TypeInv, TypeOK, ConnType, EndConnection
      <3> QED BY <2>0, <2>1, <3>1, TransportStays
    <2> QED BY <2>2, <2>3
  <1>13. ASSUME RequestStart PROVE AttachedIsConnected'
    <2>1. phase' = "starting"
      BY <1>13 DEF RequestStart, Freeze
    <2> QED BY <2>1 DEF AttachedIsConnected
  <1>14. ASSUME NEW expired \in SUBSET Users, TakeBoundary(expired) PROVE AttachedIsConnected'
    <2> SUFFICES ASSUME phase' = "running", NEW v \in participants' PROVE TransportIsTold(v)'
      BY DEF AttachedIsConnected
    <2>0. /\ phase = "running" /\ v \in participants /\ v \in Users /\ TransportIsTold(v)
          /\ players[v] # NoConn => /\ players[v] \in Conns /\ IsCurrent(players[v])
                                   /\ conn[players[v]].user = v
      <3>1. phase = "running" /\ participants' = participants
        BY <1>14 DEF TakeBoundary, LeaveLobby, live
      <3>2. players[v] # NoConn => IsCurrent(players[v]) /\ conn[players[v]].user = v
        BY <3>1 DEF IsCurrent, ConnectionsAreOwned, TypeInv, TypeOK
      <3> QED BY <3>1, <3>2 DEF AttachedIsConnected, TypeInv, TypeOK
    <2>1. UNCHANGED <<players, slipped, stale, conn>>
      BY <1>14 DEF TakeBoundary, history
    <2>2. presence'[v] = IF v \in expired THEN "disconnected" ELSE presence[v]
      BY <1>14, <2>0 DEF TakeBoundary
    <2>3. v \in expired => presence[v] = "awaiting"
      BY <1>14 DEF TakeBoundary
    <2> QED BY <2>0, <2>1, <2>2, <2>3 DEF TransportIsTold, IsOpen
  <1>15. ASSUME CheckStart PROVE AttachedIsConnected'
    BY <1>15, <1>0 DEF CheckStart, durable, live, bounds, history
  <1>16. ASSUME RunScript PROVE AttachedIsConnected'
    BY <1>16, <1>0 DEF RunScript, durable, live, bounds, history
  <1>17. ASSUME CommitStart PROVE AttachedIsConnected'
    BY <1>17, <1>0 DEF CommitStart, durable, live, bounds, history
  <1>18. ASSUME CheckLifetime PROVE AttachedIsConnected'
    BY <1>18, <1>0 DEF CheckLifetime, durable, live, bounds, history
  <1>19. ASSUME LoadRunning PROVE AttachedIsConnected'
    BY <1>19, <1>0 DEF LoadRunning, durable, live, bounds, history
  <1>20. ASSUME CompleteStart PROVE AttachedIsConnected'
    <2>a. CASE phase # "starting"
      <3>1. phase' = "ended"
        BY <1>20, <2>a DEF CompleteStart, live, LaneAt, LaneInv, AttemptsFreeze, StartAt
      <3> QED BY <3>1 DEF AttachedIsConnected
    <2>b. CASE phase = "starting"
      <3> DEFINE dropped == {u \in Users : IsOpen(players[u]) /\ ~(u \in lane.roster \ lane.resumed)}
      <3>1. /\ participants' = lane.roster /\ UNCHANGED <<slipped, stale>>
            /\ presence' = [u \in Users |->
                 IF u \notin lane.roster THEN "none"
                 ELSE IF u \in lane.resumed THEN "disconnected"
                 ELSE IF IsOpen(players[u]) THEN "attached" ELSE "awaiting"]
            /\ players' = [u \in Users |->
                 IF u \in dropped \/ u \notin lane.roster THEN NoConn ELSE players[u]]
            /\ conn' = [d \in Conns |->
                 IF \E u \in dropped : players[u] = d THEN [conn[d] EXCEPT !.at = "closed"]
                 ELSE IF d = lane.for THEN [conn[d] EXCEPT !.at = "recovered"] ELSE conn[d]]
        BY <1>20, <2>b DEF CompleteStart, history
      <3> SUFFICES ASSUME NEW v \in lane.roster PROVE TransportIsTold(v)'
        BY <3>1 DEF AttachedIsConnected
      <3>2. v \in Users
        BY DEF TypeInv, TypeOK, Lane
      <3>3. CASE v \in dropped
        <4>1. players'[v] = NoConn /\ presence'[v] # "attached"
          BY <3>1, <3>2, <3>3
        <4> QED BY <4>1 DEF TransportIsTold, IsOpen
      <3>4. CASE v \notin dropped
        <4>1. players'[v] = players[v]
          BY <3>1, <3>2, <3>4
        <4>2. CASE players[v] = NoConn
          <5>1. presence'[v] # "attached"
            BY <3>1, <3>2, <4>2 DEF IsOpen
          <5> QED BY <4>1, <4>2, <5>1 DEF TransportIsTold, IsOpen
        <4>3. CASE players[v] # NoConn
          <5>1. players[v] \in Conns /\ IsCurrent(players[v]) /\ conn[players[v]].user = v
            BY <3>2, <4>3 DEF TypeInv, TypeOK, IsCurrent, ConnectionsAreOwned
          <5>2. players[v] # lane.for
            BY <1>c, <5>1
          <5>3. ~\E u \in dropped : players[u] = players[v]
            <6> SUFFICES ASSUME NEW u \in Users, players[u] = players[v] PROVE u = v
              BY <3>4
            <6> QED BY <4>3, <5>1 DEF ConnectionsAreOwned
          <5>4. conn'[players[v]] = conn[players[v]]
            BY <3>1, <5>1, <5>2, <5>3
          <5>5. conn[players[v]].at # "closing"
            BY <2>b, <3>2, <4>3 DEF LobbyIsConnected
          <5>6. presence'[v] = "attached" <=> IsOpen(players[v])
            BY <3>1, <3>2, <3>4
          <5> QED BY <4>1, <5>4, <5>5, <5>6 DEF TransportIsTold, IsOpen
        <4> QED BY <4>2, <4>3
      <3> QED BY <3>3, <3>4
    <2> QED BY <2>a, <2>b
  <1>21. ASSUME CancelStart PROVE AttachedIsConnected'
    <2>1. phase' # "running"
      BY <1>21 DEF CancelStart, live, LaneAt, LaneInv, AttemptsFreeze, StartAt
    <2> QED BY <2>1 DEF AttachedIsConnected
  <1>22. ASSUME NEW executed \in 0..Len(lane.work), NEW accepted \in SUBSET Users,
             NEW finished \in BOOLEAN,
             CommitBoundary(executed, accepted, finished) PROVE AttachedIsConnected'
    <2>a. CASE phase # "running"
      BY <1>22, <2>a DEF CommitBoundary, live, AttachedIsConnected
    <2>b. CASE phase = "running" /\ finished
      <3>1. phase' = "finishing"
        BY <1>22, <2>b DEF CommitBoundary
      <3> QED BY <3>1 DEF AttachedIsConnected
    <2>c. CASE phase = "running" /\ ~finished
      <3> SUFFICES ASSUME phase' = "running", NEW v \in participants' PROVE TransportIsTold(v)'
        BY DEF AttachedIsConnected
      <3>0. /\ phase = "running" /\ v \in participants /\ v \in Users /\ TransportIsTold(v)
            /\ players[v] # NoConn => /\ players[v] \in Conns /\ IsCurrent(players[v])
                                     /\ conn[players[v]].user = v
        <4>1. phase = "running" /\ participants' = participants
          BY <1>22, <2>c DEF CommitBoundary
        <4>2. players[v] # NoConn => IsCurrent(players[v]) /\ conn[players[v]].user = v
          BY <4>1 DEF IsCurrent, ConnectionsAreOwned, TypeInv, TypeOK
        <4> QED BY <4>1, <4>2 DEF AttachedIsConnected, TypeInv, TypeOK
      <3>1. UNCHANGED <<players, slipped, stale>> /\ LaneAt("executing")
        BY <1>22, <2>c DEF CommitBoundary, history
      <3>2. players[v] # NoConn => conn'[players[v]].at = conn[players[v]].at
        BY <1>22, <1>c, <3>0, CommitBoundaryMoves DEF AttachAt
      <3>3. CASE v \notin accepted
        <4>1. presence'[v] = presence[v]
          BY <1>22, <2>c, <3>0, <3>3 DEF CommitBoundary
        <4> QED BY <3>0, <3>1, <3>2, <4>1, TransportStays
      <3>4. CASE v \in accepted
        <4>1. presence'[v] = "awaiting"
          BY <1>22, <2>c, <3>0, <3>4 DEF CommitBoundary
        <4>2. lane.work \in Timeline
          BY DEF TypeInv, TypeOK, Lane
        <4>3. SubSeq(lane.work, 1, executed) = lane.work
          BY <1>22, <2>c, <4>2, SubSeqFull DEF CommitBoundary, Timeline
        <4>4. Pending(RejoinOp(v))
          BY <1>22, <3>4, <4>3 DEF CommitBoundary, Pending
        <4>5. v \notin stale => presence[v] = "disconnected"
          BY <3>0, <4>4 DEF GameIsTold, PlayersAreTold
        <4> QED BY <3>0, <3>1, <3>2, <4>1, <4>5 DEF TransportIsTold, IsOpen
      <3> QED BY <3>3, <3>4
    <2> QED BY <2>a, <2>b, <2>c
  <1>23. ASSUME FailBoundary PROVE AttachedIsConnected'
    BY <1>23, <1>0 DEF FailBoundary, durable, live, bounds, history
  <1>24. ASSUME OfferCheckpoint PROVE AttachedIsConnected'
    BY <1>24, <1>0 DEF OfferCheckpoint, durable, live, bounds, history
  <1>25. ASSUME EndIfAbandoned PROVE AttachedIsConnected'
    BY <1>25, <1>0 DEF EndIfAbandoned, durable, live, bounds, history
  <1>26. ASSUME FinishGame PROVE AttachedIsConnected'
    BY <1>26, <1>0 DEF FinishGame, durable, live, bounds, history
  <1>27. ASSUME EndDurably PROVE AttachedIsConnected'
    BY <1>27, <1>0 DEF EndDurably, durable, live, bounds, history
  <1>28. ASSUME TellEnd PROVE AttachedIsConnected'
    <2>1. phase' = "ended"
      BY <1>28 DEF TellEnd, End, live
    <2> QED BY <2>1 DEF AttachedIsConnected
  <1>29. ASSUME EndFailed PROVE AttachedIsConnected'
    <2>1. CASE UNCHANGED <<live, conn>>
      BY <1>29, <1>0, <2>1 DEF EndFailed, live, history
    <2>2. CASE End("closed", {})
      BY <2>2 DEF End, AttachedIsConnected
    <2> QED BY <1>29, <2>1, <2>2, EndFailedEnds
  <1>30. ASSUME WriteCheckpoint PROVE AttachedIsConnected'
    BY <1>30, <1>0 DEF WriteCheckpoint, durable, live, bounds, history
  <1>31. ASSUME NEW cause \in AskedCauses, AskEnd(cause) PROVE AttachedIsConnected'
    BY <1>31, <1>0 DEF AskEnd, durable, live, bounds, history
  <1>32. ASSUME EndElsewhere PROVE AttachedIsConnected'
    <2>1. phase' = "ended"
      BY <1>32 DEF EndElsewhere, End, live
    <2> QED BY <2>1 DEF AttachedIsConnected
  <1>33. ASSUME Reconcile PROVE AttachedIsConnected'
    BY <1>33, <1>0 DEF Reconcile, durable, live, bounds, history
  <1>34. ASSUME Retire PROVE AttachedIsConnected'
    <2>1. phase' = "ended"
      BY <1>34 DEF Retire, End, live
    <2> QED BY <2>1 DEF AttachedIsConnected
  <1>35. ASSUME Crash PROVE AttachedIsConnected'
    <2>1. phase' = "lobby"
      BY <1>35 DEF Crash, FreshController
    <2> QED BY <2>1 DEF AttachedIsConnected
  <1>36. ASSUME Renew PROVE AttachedIsConnected'
    <2>1. phase' = "lobby"
      BY <1>36 DEF Renew, FreshController
    <2> QED BY <2>1 DEF AttachedIsConnected
  <1>37. ASSUME UNCHANGED vars PROVE AttachedIsConnected'
    BY <1>37, <1>0 DEF vars, durable, live, bounds, history
  <1> QED BY <1>1, <1>2, <1>3, <1>4, <1>5, <1>6, <1>7, <1>8, <1>9, <1>10,
        <1>11, <1>12, <1>13, <1>14, <1>15, <1>16, <1>17, <1>18, <1>19, <1>20,
        <1>21, <1>22, <1>23, <1>24, <1>25, <1>26, <1>27, <1>28, <1>29, <1>30,
        <1>31, <1>32, <1>33, <1>34, <1>35, <1>36, <1>37
        DEF Next, PlayerStep, AttachStep, LaneStep

\* An abandoned Session stays told of while the lane only goes on with it.
LEMMA AbandonedFrame ==
  ASSUME AbandonedIsTold,
         lane'.cause = "ALL_PLAYERS_LEFT" =>
           /\ lane.cause = "ALL_PLAYERS_LEFT"
           /\ db'.status = Lobby => db.status = Lobby
           /\ db'.roster = db.roster /\ gone' = gone /\ stale \subseteq stale'
  PROVE  AbandonedIsTold'
  BY DEF AbandonedIsTold

\* Every step keeps whoever is about to be abandoned told of.
LEMMA AbandonedStep ==
  /\ TypeInv /\ LaneInv /\ DurableIsCommitted /\ GameIsTold /\ AbandonedIsTold /\ [Next]_vars
  => AbandonedIsTold'
  <1> SUFFICES ASSUME TypeInv, LaneInv, DurableIsCommitted, GameIsTold, AbandonedIsTold, [Next]_vars 
               PROVE  AbandonedIsTold'
    OBVIOUS
  <1>0. ASSUME UNCHANGED <<lane, db, gone, stale>> PROVE AbandonedIsTold'
    BY <1>0 DEF AbandonedIsTold
  <1>1. ASSUME NEW c \in Conns, NEW u \in Users, Connect(c, u) PROVE AbandonedIsTold'
    <2>1. UNCHANGED <<lane, db, gone>> /\ stale \subseteq stale'
      BY <1>1 DEF Connect, durable, live, history
    <2> QED BY <2>1, AbandonedFrame
  <1>2. ASSUME NEW c \in Conns, CheckEligibility(c) PROVE AbandonedIsTold'
    <2>1. UNCHANGED <<lane, db, gone>> /\ stale \subseteq stale'
      BY <1>2 DEF CheckEligibility, durable, live, history
    <2> QED BY <2>1, AbandonedFrame
  <1>3. ASSUME NEW c \in Conns, JoinLobby(c) PROVE AbandonedIsTold'
    <2>1. UNCHANGED <<lane, db, gone>> /\ stale \subseteq stale'
      BY <1>3 DEF JoinLobby, durable, live, history
    <2> QED BY <2>1, AbandonedFrame
  <1>4. ASSUME NEW c \in Conns, RecoveryNotNeeded(c) PROVE AbandonedIsTold'
    <2>1. UNCHANGED <<lane, db, gone>> /\ stale \subseteq stale'
      BY <1>4 DEF RecoveryNotNeeded, durable, live, history
    <2> QED BY <2>1, AbandonedFrame
  <1>5. ASSUME NEW c \in Conns, RequestRecovery(c) PROVE AbandonedIsTold'
    <2>1. lane'.cause = "ALL_PLAYERS_LEFT" => lane.cause = "ALL_PLAYERS_LEFT" /\ gone' = gone
      BY <1>5, IdleLaneType DEF TypeInv, TypeOK, Lane, RequestRecovery, LaneAt,
          Freeze, live, NoCause
    <2>2. UNCHANGED <<db, stale>>
      BY <1>5 DEF RequestRecovery, durable, history
    <2> QED BY <2>1, <2>2, AbandonedFrame
  <1>6. ASSUME NEW c \in Conns, Reattach(c) PROVE AbandonedIsTold'
    <2>1. UNCHANGED <<lane, db, gone>> /\ stale \subseteq stale'
      BY <1>6 DEF Reattach, durable, live, history
    <2> QED BY <2>1, AbandonedFrame
  <1>7. ASSUME NEW c \in Conns, AskRejoin(c) PROVE AbandonedIsTold'
    <2>1. UNCHANGED <<lane, db, gone>> /\ stale \subseteq stale'
      BY <1>7 DEF AskRejoin, durable, live, history
    <2> QED BY <2>1, AbandonedFrame
  <1>8. ASSUME NEW c \in Conns, GiveUpRejoin(c) PROVE AbandonedIsTold'
    <2>1. UNCHANGED <<lane, db, gone>> /\ stale \subseteq stale'
      BY <1>8 DEF GiveUpRejoin, durable, live, history
    <2> QED BY <2>1, AbandonedFrame
  <1>9. ASSUME NEW c \in Conns, Leave(c) PROVE AbandonedIsTold'
    <2>1. UNCHANGED <<lane, db, gone>> /\ stale \subseteq stale'
      BY <1>9 DEF Leave, durable, live, history
    <2> QED BY <2>1, AbandonedFrame
  <1>10. ASSUME NEW c \in Conns, LeaveSettled(c) PROVE AbandonedIsTold'
    <2>1. UNCHANGED <<lane, db, gone>> /\ stale \subseteq stale'
      BY <1>10 DEF LeaveSettled, LeaveLobby, durable, live, history
    <2> QED BY <2>1, AbandonedFrame
  <1>11. ASSUME NEW c \in Conns, Disconnect(c) PROVE AbandonedIsTold'
    <2>1. UNCHANGED <<lane, db, gone>> /\ stale \subseteq stale'
      BY <1>11 DEF Disconnect, LeaveLobby, durable, live, history
    <2> QED BY <2>1, AbandonedFrame
  <1>12. ASSUME NEW c \in Conns, EndConnection(c) PROVE AbandonedIsTold'
    <2>1. UNCHANGED <<lane, db, gone>> /\ stale \subseteq stale'
      BY <1>12 DEF EndConnection, durable, live, history
    <2> QED BY <2>1, AbandonedFrame
  <1>13. ASSUME RequestStart PROVE AbandonedIsTold'
    <2>1. lane'.cause = "ALL_PLAYERS_LEFT" => lane.cause = "ALL_PLAYERS_LEFT" /\ gone' = gone
      BY <1>13, IdleLaneType DEF TypeInv, TypeOK, Lane, RequestStart, LaneAt,
          Freeze, live, NoCause
    <2>2. UNCHANGED <<db, stale>>
      BY <1>13 DEF RequestStart, durable, history
    <2> QED BY <2>1, <2>2, AbandonedFrame
  <1>14. ASSUME NEW expired \in SUBSET Users, TakeBoundary(expired) PROVE AbandonedIsTold'
    <2>1. PICK work \in Timeline : lane' \in {[IdleLane EXCEPT !.at = "executing", !.work = work],
                                              [IdleLane EXCEPT !.at = "deciding"]}
      BY <1>14, BoundaryTaken DEF TypeInv
    <2>2. lane'.cause # "ALL_PLAYERS_LEFT"
      BY <2>1, IdleLaneType DEF Lane, NoCause
    <2> QED BY <2>2, AbandonedFrame
  <1>15. ASSUME CheckStart PROVE AbandonedIsTold'
    <2>1. lane'.cause = "ALL_PLAYERS_LEFT" => lane.cause = "ALL_PLAYERS_LEFT" /\ gone' = gone
      BY <1>15, IdleLaneType DEF TypeInv, TypeOK, Lane, CheckStart, LaneAt,
          LaneTo, Fault, live, NoCause
    <2>2. UNCHANGED <<db, stale>>
      BY <1>15 DEF CheckStart, durable, history
    <2> QED BY <2>1, <2>2, AbandonedFrame
  <1>16. ASSUME RunScript PROVE AbandonedIsTold'
    <2>1. lane'.cause = "ALL_PLAYERS_LEFT" => lane.cause = "ALL_PLAYERS_LEFT" /\ gone' = gone
      BY <1>16, IdleLaneType DEF TypeInv, TypeOK, Lane, RunScript, LaneAt,
          LaneTo, LaneEnds, Fault, live, NoCause
    <2>2. UNCHANGED <<db, stale>>
      BY <1>16 DEF RunScript, durable, history
    <2> QED BY <2>1, <2>2, AbandonedFrame
  <1>17. ASSUME CommitStart PROVE AbandonedIsTold'
    <2>1. lane'.cause # "ALL_PLAYERS_LEFT"
      BY <1>17, IdleLaneType DEF TypeInv, TypeOK, Lane, CommitStart, LaneAt,
          LaneTo, Fault, NoCause, LaneInv, LaneIsTidy, EndingAt
    <2> QED BY <2>1, AbandonedFrame
  <1>18. ASSUME CheckLifetime PROVE AbandonedIsTold'
    <2>1. lane'.cause = "ALL_PLAYERS_LEFT" => lane.cause = "ALL_PLAYERS_LEFT" /\ gone' = gone
      BY <1>18, IdleLaneType DEF TypeInv, TypeOK, Lane, CheckLifetime, LaneAt,
          LaneTo, LaneEnds, Fault, live, NoCause
    <2>2. UNCHANGED <<db, stale>>
      BY <1>18 DEF CheckLifetime, durable, history
    <2> QED BY <2>1, <2>2, AbandonedFrame
  <1>19. ASSUME LoadRunning PROVE AbandonedIsTold'
    <2>1. lane'.cause # "ALL_PLAYERS_LEFT"
      BY <1>19, IdleLaneType DEF TypeInv, TypeOK, Lane, LoadRunning,
          CommittedRoster, LaneAt, LaneTo, Fault, NoCause, LaneInv,
          LaneIsTidy, EndingAt
    <2> QED BY <2>1, AbandonedFrame
  <1>20. ASSUME CompleteStart PROVE AbandonedIsTold'
    <2>1. lane'.cause # "ALL_PLAYERS_LEFT"
      BY <1>20, IdleLaneType DEF TypeInv, TypeOK, Lane, CompleteStart, LaneAt,
          LaneIdle, NoCause
    <2> QED BY <2>1, AbandonedFrame
  <1>21. ASSUME CancelStart PROVE AbandonedIsTold'
    <2>1. lane'.cause # "ALL_PLAYERS_LEFT"
      BY <1>21, IdleLaneType DEF TypeInv, TypeOK, Lane, CancelStart, LaneAt,
          LaneIdle, NoCause
    <2> QED BY <2>1, AbandonedFrame
  <1>22. ASSUME NEW executed \in 0..Len(lane.work), NEW accepted \in SUBSET Users,
             NEW finished \in BOOLEAN,
             CommitBoundary(executed, accepted, finished) PROVE AbandonedIsTold'
    <2>1. lane' \in {IdleLane, [IdleLane EXCEPT !.at = "ending", !.cause = "GAME_FINISHED"],
                   [IdleLane EXCEPT !.at = "committed"]}
      BY <1>22 DEF CommitBoundary, LaneIdle
    <2>2. lane'.cause # "ALL_PLAYERS_LEFT"
      BY <2>1, IdleLaneType DEF Lane, NoCause
    <2> QED BY <2>2, AbandonedFrame
  <1>23. ASSUME FailBoundary PROVE AbandonedIsTold'
    <2>1. lane'.cause = "ALL_PLAYERS_LEFT" => lane.cause = "ALL_PLAYERS_LEFT" /\ gone' = gone
      BY <1>23, IdleLaneType DEF TypeInv, TypeOK, Lane, FailBoundary, LaneAt,
          LaneEnds, Fault, live, NoCause
    <2>2. UNCHANGED <<db, stale>>
      BY <1>23 DEF FailBoundary, durable, history
    <2> QED BY <2>1, <2>2, AbandonedFrame
  <1>24. ASSUME OfferCheckpoint PROVE AbandonedIsTold'
    <2>1. lane'.cause = "ALL_PLAYERS_LEFT" => lane.cause = "ALL_PLAYERS_LEFT" /\ gone' = gone
      BY <1>24, IdleLaneType DEF TypeInv, TypeOK, Lane, OfferCheckpoint, LaneAt,
          LaneTo, live, NoCause
    <2>2. UNCHANGED <<db, stale>>
      BY <1>24 DEF OfferCheckpoint, durable, history
    <2> QED BY <2>1, <2>2, AbandonedFrame
  <1>25. ASSUME EndIfAbandoned PROVE AbandonedIsTold'
    <2>1. UNCHANGED <<db, gone, stale, phase, participants, presence, timeline>>
      BY <1>25 DEF EndIfAbandoned, durable, live, history
    <2>2. lane'.cause = "ALL_PLAYERS_LEFT" => Abandoned
      BY <1>25, IdleLaneType DEF EndIfAbandoned, LaneIdle, NoCause
    <2>3. ASSUME Abandoned PROVE db.status # Lobby /\ db.roster \ stale \subseteq gone
      <3>1. /\ phase = "running" /\ timeline = <<>>
            /\ \A u \in participants : presence[u] = "disconnected"
        BY <2>3 DEF Abandoned
      <3>2. db.status # Lobby /\ participants = db.roster
        BY <3>1 DEF DurableIsCommitted, Committed
      <3>3. lane.work = <<>>
        BY <1>25 DEF EndIfAbandoned, LaneAt, LaneInv, LaneIsTidy, EndingAt
      <3>4. \A u : ~Pending(DisconnectedOp(u))
        BY <3>1, <3>3 DEF Pending, Waits
      <3>5. PlayersAreTold
        BY <3>1 DEF GameIsTold
      <3> QED BY <3>1, <3>2, <3>4, <3>5 DEF PlayersAreTold
    <2> QED BY <2>1, <2>2, <2>3 DEF AbandonedIsTold
  <1>26. ASSUME FinishGame PROVE AbandonedIsTold'
    <2>1. lane'.cause = "ALL_PLAYERS_LEFT" => lane.cause = "ALL_PLAYERS_LEFT" /\ gone' = gone
      BY <1>26, IdleLaneType DEF TypeInv, TypeOK, Lane, FinishGame, LaneAt, live,
          NoCause
    <2>2. UNCHANGED <<db, stale>>
      BY <1>26 DEF FinishGame, durable, history
    <2> QED BY <2>1, <2>2, AbandonedFrame
  <1>27. ASSUME EndDurably PROVE AbandonedIsTold'
    <2>1. UNCHANGED <<gone, stale>> /\ lane'.cause = lane.cause
      BY <1>27 DEF TypeInv, TypeOK, Lane, EndDurably, LaneTo, live, history
    <2>2. lane.cause \in EndCause \cup {NoCause}
      BY DEF TypeInv, TypeOK, Lane
    <2>3. db'.roster = db.roster /\ (db' = db \/ db'.status \in TerminalStatus)
      BY <1>27, <2>2, EndingIsTerminal DEF TypeInv, TypeOK, EndDurably, EndedFor
    <2>4. db'.status = Lobby => db.status = Lobby
      BY <2>3 DEF TerminalStatus, Lobby, Finished, Cancelled, Expired, Aborted
    <2> QED BY <2>1, <2>3, <2>4, AbandonedFrame
  <1>28. ASSUME TellEnd PROVE AbandonedIsTold'
    <2>1. lane'.cause = "ALL_PLAYERS_LEFT" => lane.cause = "ALL_PLAYERS_LEFT" /\ gone' = gone
      BY <1>28, IdleLaneType DEF TypeInv, TypeOK, Lane, TellEnd, LaneAt,
          LaneIdle, End, live, NoCause
    <2>2. UNCHANGED <<db, stale>>
      BY <1>28 DEF TellEnd, durable, history
    <2> QED BY <2>1, <2>2, AbandonedFrame
  <1>29. ASSUME EndFailed PROVE AbandonedIsTold'
    <2>1. lane'.cause = "ALL_PLAYERS_LEFT" => lane.cause = "ALL_PLAYERS_LEFT" /\ gone' = gone
      BY <1>29, IdleLaneType DEF TypeInv, TypeOK, Lane, EndFailed, LaneAt,
          LaneTo, LaneIdle, End, live, NoCause
    <2>2. UNCHANGED <<db, stale>>
      BY <1>29 DEF EndFailed, durable, history
    <2> QED BY <2>1, <2>2, AbandonedFrame
  <1>30. ASSUME WriteCheckpoint PROVE AbandonedIsTold'
    <2>1. UNCHANGED <<lane, gone, stale>> /\ db'.status = db.status /\ db'.roster = db.roster
      BY <1>30 DEF TypeInv, TypeOK, WriteCheckpoint, live, history
    <2> QED BY <2>1, AbandonedFrame
  <1>31. ASSUME NEW cause \in AskedCauses, AskEnd(cause) PROVE AbandonedIsTold'
    <2>1. lane'.cause # "ALL_PLAYERS_LEFT"
      BY <1>31, IdleLaneType, LiveSessionAssumption DEF TypeInv, TypeOK, Lane,
          AskEnd, LaneAt, NoCause, LiveSessionAssumption
    <2> QED BY <2>1, AbandonedFrame
  <1>32. ASSUME EndElsewhere PROVE AbandonedIsTold'
    <2>1. UNCHANGED <<lane, db, gone>> /\ stale \subseteq stale'
      BY <1>32 DEF EndElsewhere, End, durable, live, history
    <2> QED BY <2>1, AbandonedFrame
  <1>33. ASSUME Reconcile PROVE AbandonedIsTold'
    <2>1. UNCHANGED <<lane, gone, stale>> /\ \E cause \in EndCause : db' = EndedFor(cause)
      BY <1>33 DEF Reconcile, EndCause, live, history
    <2>2. db'.roster = db.roster /\ db'.status \in TerminalStatus
      BY <2>1, EndingIsTerminal DEF TypeInv, TypeOK, EndedFor
    <2>3. db'.status # Lobby
      BY <2>2 DEF TerminalStatus, Lobby, Finished, Cancelled, Expired, Aborted
    <2> QED BY <2>1, <2>2, <2>3, AbandonedFrame
  <1>34. ASSUME Retire PROVE AbandonedIsTold'
    <2>1. UNCHANGED <<lane, db, gone>> /\ stale \subseteq stale'
      BY <1>34 DEF Retire, End, durable, live, history
    <2> QED BY <2>1, AbandonedFrame
  <1>35. ASSUME Crash PROVE AbandonedIsTold'
    <2>1. lane' = IdleLane
      BY <1>35 DEF Crash, FreshController
    <2> QED BY <2>1, IdleLaneType, AbandonedFrame DEF NoCause
  <1>36. ASSUME Renew PROVE AbandonedIsTold'
    <2>1. lane' = IdleLane
      BY <1>36 DEF Renew, FreshController
    <2> QED BY <2>1, IdleLaneType, AbandonedFrame DEF NoCause
  <1>37. ASSUME UNCHANGED vars PROVE AbandonedIsTold'
    BY <1>37, <1>0 DEF vars, durable, live, bounds, history
  <1> QED BY <1>1, <1>2, <1>3, <1>4, <1>5, <1>6, <1>7, <1>8, <1>9, <1>10,
        <1>11, <1>12, <1>13, <1>14, <1>15, <1>16, <1>17, <1>18, <1>19, <1>20,
        <1>21, <1>22, <1>23, <1>24, <1>25, <1>26, <1>27, <1>28, <1>29, <1>30,
        <1>31, <1>32, <1>33, <1>34, <1>35, <1>36, <1>37
        DEF Next, PlayerStep, AttachStep, LaneStep

\* A Session ends for the lane's cause, or for what reconciliation finds.
LEMMA CauseOfEnd ==
  TypeInv /\ [Next]_vars => db'.cause \in {db.cause, lane.cause, "LOBBY_EXPIRED", "OWNER_LOST"}
  <1> SUFFICES ASSUME TypeInv, [Next]_vars
               PROVE  db'.cause \in {db.cause, lane.cause, "LOBBY_EXPIRED", "OWNER_LOST"}
    OBVIOUS
  <1>1. ASSUME NEW c \in Conns, NEW u \in Users, Connect(c, u)
        PROVE  db'.cause \in {db.cause, lane.cause, "LOBBY_EXPIRED", "OWNER_LOST"}
    BY <1>1 DEF Connect, durable
  <1>2. ASSUME NEW c \in Conns, CheckEligibility(c)
        PROVE  db'.cause \in {db.cause, lane.cause, "LOBBY_EXPIRED", "OWNER_LOST"}
    BY <1>2 DEF CheckEligibility, durable
  <1>3. ASSUME NEW c \in Conns, JoinLobby(c)
        PROVE  db'.cause \in {db.cause, lane.cause, "LOBBY_EXPIRED", "OWNER_LOST"}
    BY <1>3 DEF JoinLobby, durable
  <1>4. ASSUME NEW c \in Conns, RecoveryNotNeeded(c)
        PROVE  db'.cause \in {db.cause, lane.cause, "LOBBY_EXPIRED", "OWNER_LOST"}
    BY <1>4 DEF RecoveryNotNeeded, durable
  <1>5. ASSUME NEW c \in Conns, RequestRecovery(c)
        PROVE  db'.cause \in {db.cause, lane.cause, "LOBBY_EXPIRED", "OWNER_LOST"}
    BY <1>5 DEF RequestRecovery, durable
  <1>6. ASSUME NEW c \in Conns, Reattach(c)
        PROVE  db'.cause \in {db.cause, lane.cause, "LOBBY_EXPIRED", "OWNER_LOST"}
    BY <1>6 DEF Reattach, durable
  <1>7. ASSUME NEW c \in Conns, AskRejoin(c)
        PROVE  db'.cause \in {db.cause, lane.cause, "LOBBY_EXPIRED", "OWNER_LOST"}
    BY <1>7 DEF AskRejoin, durable
  <1>8. ASSUME NEW c \in Conns, GiveUpRejoin(c)
        PROVE  db'.cause \in {db.cause, lane.cause, "LOBBY_EXPIRED", "OWNER_LOST"}
    BY <1>8 DEF GiveUpRejoin, durable
  <1>9. ASSUME NEW c \in Conns, Leave(c)
        PROVE  db'.cause \in {db.cause, lane.cause, "LOBBY_EXPIRED", "OWNER_LOST"}
    BY <1>9 DEF Leave, durable
  <1>10. ASSUME NEW c \in Conns, LeaveSettled(c)
        PROVE  db'.cause \in {db.cause, lane.cause, "LOBBY_EXPIRED", "OWNER_LOST"}
    BY <1>10 DEF LeaveSettled, durable
  <1>11. ASSUME NEW c \in Conns, Disconnect(c)
        PROVE  db'.cause \in {db.cause, lane.cause, "LOBBY_EXPIRED", "OWNER_LOST"}
    BY <1>11 DEF Disconnect, durable
  <1>12. ASSUME NEW c \in Conns, EndConnection(c)
        PROVE  db'.cause \in {db.cause, lane.cause, "LOBBY_EXPIRED", "OWNER_LOST"}
    BY <1>12 DEF EndConnection, durable
  <1>13. ASSUME RequestStart
        PROVE  db'.cause \in {db.cause, lane.cause, "LOBBY_EXPIRED", "OWNER_LOST"}
    BY <1>13 DEF RequestStart, durable
  <1>14. ASSUME NEW expired \in SUBSET Users, TakeBoundary(expired)
        PROVE  db'.cause \in {db.cause, lane.cause, "LOBBY_EXPIRED", "OWNER_LOST"}
    BY <1>14 DEF TakeBoundary, durable
  <1>15. ASSUME CheckStart
        PROVE  db'.cause \in {db.cause, lane.cause, "LOBBY_EXPIRED", "OWNER_LOST"}
    BY <1>15 DEF CheckStart, durable
  <1>16. ASSUME RunScript
        PROVE  db'.cause \in {db.cause, lane.cause, "LOBBY_EXPIRED", "OWNER_LOST"}
    BY <1>16 DEF RunScript, durable
  <1>17. ASSUME CommitStart
        PROVE  db'.cause \in {db.cause, lane.cause, "LOBBY_EXPIRED", "OWNER_LOST"}
    BY <1>17 DEF TypeInv, TypeOK, CommitStart
  <1>18. ASSUME CheckLifetime
        PROVE  db'.cause \in {db.cause, lane.cause, "LOBBY_EXPIRED", "OWNER_LOST"}
    BY <1>18 DEF CheckLifetime, durable
  <1>19. ASSUME LoadRunning
        PROVE  db'.cause \in {db.cause, lane.cause, "LOBBY_EXPIRED", "OWNER_LOST"}
    BY <1>19 DEF LoadRunning, durable
  <1>20. ASSUME CompleteStart
        PROVE  db'.cause \in {db.cause, lane.cause, "LOBBY_EXPIRED", "OWNER_LOST"}
    BY <1>20 DEF CompleteStart, durable
  <1>21. ASSUME CancelStart
        PROVE  db'.cause \in {db.cause, lane.cause, "LOBBY_EXPIRED", "OWNER_LOST"}
    BY <1>21 DEF CancelStart, durable
  <1>22. ASSUME NEW executed \in 0..Len(lane.work), NEW accepted \in SUBSET Users,
              NEW finished \in BOOLEAN,
               CommitBoundary(executed, accepted, finished)
        PROVE  db'.cause \in {db.cause, lane.cause, "LOBBY_EXPIRED", "OWNER_LOST"}
    BY <1>22 DEF CommitBoundary, durable
  <1>23. ASSUME FailBoundary
        PROVE  db'.cause \in {db.cause, lane.cause, "LOBBY_EXPIRED", "OWNER_LOST"}
    BY <1>23 DEF FailBoundary, durable
  <1>24. ASSUME OfferCheckpoint
        PROVE  db'.cause \in {db.cause, lane.cause, "LOBBY_EXPIRED", "OWNER_LOST"}
    BY <1>24 DEF OfferCheckpoint, durable
  <1>25. ASSUME EndIfAbandoned
        PROVE  db'.cause \in {db.cause, lane.cause, "LOBBY_EXPIRED", "OWNER_LOST"}
    BY <1>25 DEF EndIfAbandoned, durable
  <1>26. ASSUME FinishGame
        PROVE  db'.cause \in {db.cause, lane.cause, "LOBBY_EXPIRED", "OWNER_LOST"}
    BY <1>26 DEF FinishGame, durable
  <1>27. ASSUME EndDurably
        PROVE  db'.cause \in {db.cause, lane.cause, "LOBBY_EXPIRED", "OWNER_LOST"}
    BY <1>27, EndingIsTerminal DEF TypeInv, TypeOK, Lane, EndDurably, EndedFor
  <1>28. ASSUME TellEnd
        PROVE  db'.cause \in {db.cause, lane.cause, "LOBBY_EXPIRED", "OWNER_LOST"}
    BY <1>28 DEF TellEnd, durable
  <1>29. ASSUME EndFailed
        PROVE  db'.cause \in {db.cause, lane.cause, "LOBBY_EXPIRED", "OWNER_LOST"}
    BY <1>29 DEF EndFailed, durable
  <1>30. ASSUME WriteCheckpoint
        PROVE  db'.cause \in {db.cause, lane.cause, "LOBBY_EXPIRED", "OWNER_LOST"}
    BY <1>30 DEF TypeInv, TypeOK, WriteCheckpoint
  <1>31. ASSUME NEW cause \in AskedCauses, AskEnd(cause)
        PROVE  db'.cause \in {db.cause, lane.cause, "LOBBY_EXPIRED", "OWNER_LOST"}
    BY <1>31 DEF AskEnd, durable
  <1>32. ASSUME EndElsewhere
        PROVE  db'.cause \in {db.cause, lane.cause, "LOBBY_EXPIRED", "OWNER_LOST"}
    BY <1>32 DEF EndElsewhere, durable
  <1>33. ASSUME Reconcile
        PROVE  db'.cause \in {db.cause, lane.cause, "LOBBY_EXPIRED", "OWNER_LOST"}
    BY <1>33, EndingIsTerminal DEF TypeInv, TypeOK, EndCause, Reconcile, EndedFor
  <1>34. ASSUME Retire
        PROVE  db'.cause \in {db.cause, lane.cause, "LOBBY_EXPIRED", "OWNER_LOST"}
    BY <1>34 DEF Retire, durable
  <1>35. ASSUME Crash
        PROVE  db'.cause \in {db.cause, lane.cause, "LOBBY_EXPIRED", "OWNER_LOST"}
    BY <1>35 DEF Crash, durable
  <1>36. ASSUME Renew
        PROVE  db'.cause \in {db.cause, lane.cause, "LOBBY_EXPIRED", "OWNER_LOST"}
    BY <1>36 DEF Renew, durable
  <1>37. ASSUME UNCHANGED vars
        PROVE  db'.cause \in {db.cause, lane.cause, "LOBBY_EXPIRED", "OWNER_LOST"}
    BY <1>37 DEF vars, durable
  <1> QED BY <1>1, <1>2, <1>3, <1>4, <1>5, <1>6, <1>7, <1>8, <1>9, <1>10,
        <1>11, <1>12, <1>13, <1>14, <1>15, <1>16, <1>17, <1>18, <1>19, <1>20,
        <1>21, <1>22, <1>23, <1>24, <1>25, <1>26, <1>27, <1>28, <1>29, <1>30,
        <1>31, <1>32, <1>33, <1>34, <1>35, <1>36, <1>37
        DEF Next, PlayerStep, AttachStep, LaneStep

\* What waits in two sequences of operations waits in either.
LEMMA WaitsTogether ==
  ASSUME NEW s \in Timeline, NEW t \in Timeline, NEW op
  PROVE  Waits(s \o t, op) <=> Waits(s, op) \/ Waits(t, op)
  <1>1. PICK r \in Timeline : r = s \o t
    BY ConcatProperties DEF Timeline
  <1>2. /\ Len(s) \in Nat /\ DOMAIN s = 1..Len(s)
        /\ Len(t) \in Nat /\ DOMAIN t = 1..Len(t)
        /\ DOMAIN r = 1..(Len(s) + Len(t))
    BY <1>1, ConcatProperties, LenProperties DEF Timeline
  <1>3. \A i \in 1..(Len(s) + Len(t)) : r[i] = IF i <= Len(s) THEN s[i] ELSE t[i - Len(s)]
    BY <1>1, ConcatProperties DEF Timeline
  <1>4. ASSUME NEW i \in DOMAIN r, r[i] = op PROVE Waits(s, op) \/ Waits(t, op)
    <2>1. CASE i <= Len(s)
      BY <1>2, <1>3, <1>4, <2>1 DEF Waits
    <2>2. CASE i > Len(s)
      <3>1. i - Len(s) \in DOMAIN t /\ t[i - Len(s)] = op
        BY <1>2, <1>3, <1>4, <2>2
      <3> QED BY <3>1 DEF Waits
    <2> QED BY <1>2, <2>1, <2>2
  <1>5. Waits(s, op) => Waits(r, op)
    BY <1>2, <1>3 DEF Waits
  <1>6. ASSUME NEW j \in DOMAIN t, t[j] = op PROVE Waits(r, op)
    <2>1. Len(s) + j \in DOMAIN r /\ r[Len(s) + j] = op
      BY <1>2, <1>3, <1>6
    <2> QED BY <2>1 DEF Waits
  <1> QED BY <1>1, <1>4, <1>5, <1>6 DEF Waits

\* A new controller for a new Session is in order.
LEMMA LiveInit == Init => LiveInv
  <1> SUFFICES ASSUME Init PROVE LiveInv
    OBVIOUS
  <1>1. TypeInv
    <2>1. timeline \in Timeline /\ lane \in Lane
      BY EmptySeq, IdleLaneType DEF Init, Timeline
    <2>2. /\ db \in [status: Status, cause: EndCause \cup {NoCause}, roster: SUBSET Users,
                    gone: SUBSET Users, disconnected: SUBSET Users]
          /\ offered \in Snapshot \cup {NoOffer}
      BY DEF Init, Status, LiveStatus
    <2>3. /\ players \in [Users -> Conns \cup {NoConn}]
          /\ presence \in [Users -> {"none", "attached", "awaiting", "disconnected"}]
          /\ conn \in [Conns -> [user: Users \cup {NoUser}, at: OpenAt \cup AttachAt \cup ClosedAt]]
      BY DEF Init, ClosedAt
    <2>4. starts \in 0..MaxStarts /\ faults \in 0..MaxFaults
      BY LiveSessionAssumption DEF Init, LiveSessionAssumption
    <2>5. /\ phase \in Phase /\ lobby \subseteq Users /\ participants \subseteq Users
          /\ rejoins \subseteq Users /\ gone \subseteq Users
          /\ slipped \subseteq Conns /\ stale \subseteq Users
      BY DEF Init, Phase
    <2>6. UsersConnect
      BY IdleLaneType DEF Init, UsersConnect
    <2> QED BY <2>1, <2>2, <2>3, <2>4, <2>5, <2>6 DEF TypeInv, TypeOK
  <1>2. LaneInv
    BY IdleLaneType DEF Init, LaneInv, LaneIsTidy, AttemptsFreeze, LaneAt, StartAt, NoCause
  <1>3. ConnectionsAreOwned
    BY IdleLaneType DEF Init, ConnectionsAreOwned, NobodyIsForgotten
  <1>4. LobbyIsConnected
    <2>1. Cardinality(lobby) = 0
      BY FS_EmptySet DEF Init
    <2> QED BY <2>1, LiveSessionAssumption DEF Init, LobbyIsConnected, LiveSessionAssumption
  <1>5. DurableIsCommitted
    BY IdleLaneType DEF Init, DurableIsCommitted, LaneAt
  <1>6. EndsAreDurable
    BY IdleLaneType DEF Init, EndsAreDurable, ToldEndingsAreDurable, LaneAt
  <1>7. GameIsTold
    BY IdleLaneType DEF Init, GameIsTold, NothingIsToldYet, CheckpointsAreConsistent, Consistent, LaneAt
  <1>8. AttachedIsConnected
    BY DEF Init, AttachedIsConnected
  <1>9. AbandonedIsTold
    BY IdleLaneType DEF Init, AbandonedIsTold, NoCause
  <1> QED BY <1>1, <1>2, <1>3, <1>4, <1>5, <1>6, <1>7, <1>8, <1>9 DEF LiveInv, TypeInv

\* Every step keeps all the layers.
LEMMA LiveStep == LiveInv /\ [Next]_vars => LiveInv'
  BY TypeStep, LaneStepInv, OwnedStep, LobbyStep, DurableStep, EndsStep, GameStep, AttachedStep,
     AbandonedStep DEF LiveInv, TypeInv

\* The layers together are an invariant of every live Session.
THEOREM LiveInvariant == Spec => []LiveInv
  BY LiveInit, LiveStep, PTL DEF Spec

\* Every variable of a live Session keeps its type (sessionController, Session).
THEOREM LiveSessionTyped == Spec => []TypeOK
  <1>1. LiveInv => TypeOK
    BY DEF LiveInv, TypeInv
  <1> QED BY <1>1, LiveInvariant, PTL

\* Who the lobby and the game count on is who is connected, and nobody connected
\* is forgotten, through every interleaving of the lane with players attaching,
\* leaving and losing their transport (joinLobby, leaveLobby, detachPlayer,
\* reattachPlayer, completeStart, cancelStart, end).
THEOREM LiveSessionPresenceAgrees == Spec => []PresenceAgrees
  <1>1. ASSUME LiveInv PROVE PresenceAgrees
    <2>1. LobbyIsWhoIsConnected
      <3> SUFFICES ASSUME phase \in {"lobby", "starting"}
                   PROVE  /\ lobby = {u \in Users : players[u] # NoConn}
                          /\ Cardinality(lobby) <= MaxPlayers
                          /\ \A u \in lobby :
                               /\ conn[players[u]].user = u
                               /\ phase = "lobby" => IsOpen(players[u]) \/ players[u] \in slipped
        BY DEF LobbyIsWhoIsConnected
      <3>1. /\ lobby = {u \in Users : players[u] # NoConn}
            /\ Cardinality(lobby) <= MaxPlayers
            /\ \A u \in lobby : phase = "lobby" => IsOpen(players[u]) \/ players[u] \in slipped
        BY <1>1 DEF LiveInv, LobbyIsConnected
      <3>2. \A u \in Users : players[u] # NoConn => conn[players[u]].user = u
        BY <1>1 DEF LiveInv, ConnectionsAreOwned
      <3> QED BY <3>1, <3>2
    <2>2. PresenceFollowsTransport
      BY <1>1 DEF LiveInv, AttachedIsConnected, TransportIsTold, PresenceFollowsTransport
    <2>3. NobodyIsForgotten
      BY <1>1 DEF LiveInv, ConnectionsAreOwned
    <2> QED BY <2>1, <2>2, <2>3 DEF PresenceAgrees
  <1> QED BY <1>1, LiveInvariant, PTL

\* The game, the controller and what a crash falls back to agree on who plays,
\* through failed and split boundaries, shared, refused and accepted rejoins, lost
\* answers and recoveries (leave, expireGraces, rejoin, takeBoundary, requeue,
\* commitBoundary, checkpoint, adoptRunningSession).
THEOREM LiveSessionGamesAgree == Spec => []GamesAgree
  <1>1. ASSUME LiveInv PROVE GamesAgree
    <2>1. GameAgrees
      <3> SUFFICES ASSUME phase = "running", NEW u \in participants \ stale,
                          ~Waits(timeline \o lane.work, DisconnectedOp(u))
                   PROVE  u \in gone <=> presence[u] = "disconnected"
        BY DEF GameAgrees
      <3>1. timeline \in Timeline /\ lane.work \in Timeline
        BY <1>1 DEF LiveInv, TypeInv, TypeOK, Lane
      <3>2. ~Pending(DisconnectedOp(u))
        BY <3>1, WaitsTogether DEF Pending
      <3>3. PlayersAreTold
        BY <1>1 DEF LiveInv, GameIsTold
      <3> QED BY <3>2, <3>3 DEF PlayersAreTold
    <2>2. RecoveryAgrees
      BY <1>1 DEF LiveInv, GameIsTold, CheckpointsAreConsistent, Consistent, RecoveryAgrees
    <2>3. RunsTheCommittedGame
      BY <1>1 DEF LiveInv, DurableIsCommitted, Committed, RunsTheCommittedGame
    <2> QED BY <2>1, <2>2, <2>3 DEF GamesAgree
  <1> QED BY <1>1, LiveInvariant, PTL

\* A connection told the Session ended was told a durable ending (endSession,
\* endElsewhere).
THEOREM LiveSessionEndsAreDurable == Spec => []ToldEndingsAreDurable
  <1>1. LiveInv => ToldEndingsAreDurable
    BY DEF LiveInv, EndsAreDurable
  <1> QED BY <1>1, LiveInvariant, PTL

\* A Session is cancelled as abandoned only once the game was told about each
\* participant, at whatever step the cancellation is written (isAbandoned,
\* endIfAbandoned, endSession).
THEOREM LiveSessionAbandonedOnceTold == Spec => AbandonedOnlyOnceTold
  <1>1. ASSUME LiveInv, [Next]_vars
        PROVE  [db'.cause = "ALL_PLAYERS_LEFT" /\ db.cause # "ALL_PLAYERS_LEFT"
                  => db.roster \ stale \subseteq gone]_vars
    <2> SUFFICES ASSUME db'.cause = "ALL_PLAYERS_LEFT", db.cause # "ALL_PLAYERS_LEFT"
                 PROVE  db.roster \ stale \subseteq gone
      OBVIOUS
    <2>1. lane.cause = "ALL_PLAYERS_LEFT"
      BY <1>1, CauseOfEnd DEF LiveInv, TypeInv
    <2> QED BY <1>1, <2>1 DEF LiveInv, AbandonedIsTold
  <1> QED BY <1>1, LiveInvariant, PTL DEF Spec, AbandonedOnlyOnceTold
=============================================================================
