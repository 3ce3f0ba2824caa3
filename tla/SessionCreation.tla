--------------------------- MODULE SessionCreation ---------------------------
(***************************************************************************)
(* Creating Sessions: idempotent requests, the limit on a creator's active *)
(* Sessions and the allocation of join codes, as concurrent transactions   *)
(* of play/session/workflows/sessionlifecycle (CreateSession), against the *)
(* transactions that start and end the Sessions created, and what          *)
(* resolving a join code answers meanwhile (usecases/resolvejoincode).     *)
(*                                                                         *)
(* Transactions run at READ COMMITTED: a statement sees what others        *)
(* committed before it, an insert waits for another transaction's          *)
(* uncommitted row with the same unique key, and LockCreator waits for the *)
(* creator's other creations.                                              *)
(***************************************************************************)
EXTENDS Integers, FiniteSets, SessionStatus

CONSTANTS
  Users, Keys, Games,
  Sessions,      \* the Sessions that may be created
  Codes,         \* the join code space
  Calls,         \* CreateSession calls in progress at once
  MaxActive,     \* active Sessions one creator may have
  MaxAttempts,   \* candidate codes one creation tries
  LobbyTTL,
  MaxTime        \* bound of the clock

\* Stands for the Session or the code that is not there.
NoSession == "no session"

ASSUME SessionCreationAssumption ==
  /\ IsFiniteSet(Sessions)
  /\ NoSession \notin Sessions \cup Codes
  /\ MaxActive \in Nat \ {0}
  /\ MaxAttempts \in Nat \ {0}
  /\ LobbyTTL \in Nat \ {0}
  /\ MaxTime \in Nat

VARIABLES
  now,
  current,    \* the Games that point to a version
  row,        \* play_sessions
  joinCode,   \* play_session_join_codes, one row per Session
  requests,   \* play_create_session_requests
  call,       \* the creation transactions in flight
  starting,   \* when each CommitStart in flight read the clock under its row lock
  answers     \* what callers were answered, as a history

vars == <<now, current, row, joinCode, requests, call, starting, answers>>

\* A join code row's id only orders the assignments of one code, which never
\* overlap in flight: it is the number of earlier ones.

\* Stands for the terminal statuses.
Ended == "ENDED"

NoStart    == -1
NoRow      == [status |-> Absent, creator |-> NoSession, lobbyExpires |-> 0]
NoJoinCode == [code |-> NoSession, id |-> 0, released |-> TRUE]
NoRequest  == [outcome |-> "none"]
Idle       == [step |-> "idle"]

Row      == [status: {Lobby, Running, Ended}, creator: Users, lobbyExpires: Nat]
JoinCode == [code: Codes, id: Nat, released: BOOLEAN]
Request  == [game: Games, outcome: {"created", "game_unavailable", "active_session_limit"},
             session: Sessions \cup {NoSession}]
Call     == [step: {"claimed", "counted", "drawing", "coded"},
             user: Users, key: Keys, game: Games,
             at: Nat, active: Nat,
             session: Sessions \cup {NoSession},
             code: Codes \cup {NoSession}, frees: SUBSET Sessions, tries: Nat]
Answer   == [user: Users, key: Keys, outcome: {"created", "game_unavailable", "active_session_limit"},
             session: Sessions \cup {NoSession}, code: Codes \cup {NoSession}]

TypeOK ==
  /\ now \in Nat
  /\ current \subseteq Games
  /\ row \in [Sessions -> Row \cup {NoRow}]
  /\ joinCode \in [Sessions -> JoinCode \cup {NoJoinCode}]
  /\ requests \in [Users \X Keys -> Request \cup {NoRequest}]
  /\ call \in [Calls -> Call \cup {Idle}]
  /\ starting \in [Sessions -> Nat \cup {NoStart}]
  /\ answers \subseteq Answer

Init ==
  /\ now = 0
  /\ current = {}
  /\ row = [s \in Sessions |-> NoRow]
  /\ joinCode = [s \in Sessions |-> NoJoinCode]
  /\ requests = [uk \in Users \X Keys |-> NoRequest]
  /\ call = [c \in Calls |-> Idle]
  /\ starting = [s \in Sessions |-> NoStart]
  /\ answers = {}

Tick ==
  /\ now < MaxTime
  /\ now' = now + 1
  /\ UNCHANGED <<current, row, joinCode, requests, call, starting, answers>>

\* Publishing gives a Game its current version.
Publish(g) ==
  /\ g \notin current
  /\ current' = current \cup {g}
  /\ UNCHANGED <<now, row, joinCode, requests, call, starting, answers>>

-----------------------------------------------------------------------------
(* The creation transaction. *)

InFlight == {c \in Calls : call[c].step # "idle"}

\* The Sessions whose join code row for code is not released: at most one.
Holders(code) == {s \in Sessions : joinCode[s].code = code /\ ~joinCode[s].released}

\* Mutants: a statement does not wait for the uncommitted claim, creator lock
\* or code of another transaction.
ClaimNeverWaits(user, key) == FALSE
CreatorNeverLocked(user) == FALSE
CodeNeverWaits(code) == FALSE

\* Mutant: creations share the lock from their claim on and each waits to be
\* the only one that holds it.
CreatorShared(user) == Cardinality({c \in InFlight : call[c].user = user}) > 1

\* The rows with an uncommitted change a statement would wait for.
ClaimInFlight(user, key) ==
  \E c \in InFlight : call[c].user = user /\ call[c].key = key
CreatorLocked(user) ==
  \E c \in InFlight : call[c].user = user /\ call[c].step # "claimed"
CodeInFlight(code) ==
  \E c \in InFlight : call[c].step = "coded" /\ call[c].code = code

\* A transaction that ends has its outcome answered to its caller.
Answered(user, key, outcome, session, code) ==
  answers' = answers \cup {[user |-> user, key |-> key, outcome |-> outcome,
                            session |-> session, code |-> code]}

\* Bound of the model: every call in flight finds a Session not used yet.
HasUnusedSession == Cardinality({s \in Sessions : row[s] = NoRow}) > Cardinality(InFlight)

Claim(c, user, key, game) ==
  /\ call[c] = Idle
  /\ HasUnusedSession
  /\ ~ClaimInFlight(user, key)
  /\ requests[<<user, key>>] = NoRequest
  /\ call' = [call EXCEPT ![c] =
       [step |-> "claimed", user |-> user, key |-> key, game |-> game, at |-> 0, active |-> 0,
        session |-> NoSession, code |-> NoSession, frees |-> {}, tries |-> 0]]
  /\ UNCHANGED <<now, current, row, joinCode, requests, starting, answers>>

\* The identity was claimed before: the same Game replays the outcome, another
\* one is a conflict that changes nothing.
Replay(user, key, game) ==
  LET existing == requests[<<user, key>>] IN
  /\ ~ClaimInFlight(user, key)
  /\ existing # NoRequest
  /\ existing.game = game
  /\ IF existing.outcome = "created"
       THEN Answered(user, key, "created", existing.session, joinCode[existing.session].code)
       ELSE Answered(user, key, existing.outcome, NoSession, NoSession)
  /\ UNCHANGED <<now, current, row, joinCode, requests, call, starting>>

ActiveSessions(user, at) ==
  {s \in Sessions : /\ row[s].creator = user
                    /\ \/ row[s].status = Lobby /\ row[s].lobbyExpires > at
                       \/ row[s].status = Running}

\* LockCreator, then the clock, then CountActiveSessions.
CountActive(c) ==
  /\ call[c].step = "claimed"
  /\ ~CreatorLocked(call[c].user)
  /\ call' = [call EXCEPT ![c].step = "counted", ![c].at = now,
                          ![c].active = Cardinality(ActiveSessions(call[c].user, now))]
  /\ UNCHANGED <<now, current, row, joinCode, requests, starting, answers>>

\* The request completes without a Session and commits.
Refuse(c, outcome) ==
  LET k == call[c] IN
  /\ requests' = [requests EXCEPT ![<<k.user, k.key>>] =
                    [game |-> k.game, outcome |-> outcome, session |-> NoSession]]
  /\ Answered(k.user, k.key, outcome, NoSession, NoSession)
  /\ call' = [call EXCEPT ![c] = Idle]
  /\ UNCHANGED <<now, current, row, joinCode, starting>>

RefuseOverLimit(c) ==
  /\ call[c].step = "counted"
  /\ call[c].active >= MaxActive
  /\ Refuse(c, "active_session_limit")

RefuseUnavailable(c) ==
  /\ call[c].step = "counted"
  /\ call[c].active < MaxActive
  /\ call[c].game \notin current
  /\ Refuse(c, "game_unavailable")

InsertSession(c, s) ==
  /\ call[c].step = "counted"
  /\ call[c].active < MaxActive
  /\ call[c].game \in current
  /\ row[s] = NoRow
  /\ \A d \in InFlight : call[d].session # s
  /\ call' = [call EXCEPT ![c].step = "drawing", ![c].session = s]
  /\ UNCHANGED <<now, current, row, joinCode, requests, starting, answers>>

\* Mutant: a held code is taken over whatever its holder's expiry.
DrawHeldCode(c, code) ==
  /\ call[c].step = "drawing"
  /\ call[c].tries < MaxAttempts
  /\ ~CodeInFlight(code)
  /\ call' = [call EXCEPT ![c].step = "coded", ![c].code = code, ![c].frees = Holders(code)]
  /\ UNCHANGED <<now, current, row, joinCode, requests, starting, answers>>

\* One candidate code: taken when nobody holds it, or its holder's lobby
\* expired by the creation's clock (released within this transaction).
DrawCode(c, code) ==
  LET k == call[c] IN
  /\ k.step = "drawing"
  /\ k.tries < MaxAttempts
  /\ ~CodeInFlight(code)
  /\ IF \A s \in Holders(code) : row[s].lobbyExpires <= k.at
       THEN call' = [call EXCEPT ![c].step = "coded", ![c].code = code, ![c].frees = Holders(code)]
       ELSE call' = [call EXCEPT ![c].tries = @ + 1]
  /\ UNCHANGED <<now, current, row, joinCode, requests, starting, answers>>

CommitCreation(c) ==
  LET k == call[c] IN
  /\ k.step = "coded"
  /\ row' = [row EXCEPT ![k.session] =
               [status |-> Lobby, creator |-> k.user, lobbyExpires |-> k.at + LobbyTTL]]
  /\ joinCode' = [s \in Sessions |->
                    IF s = k.session
                      THEN [code |-> k.code, id |-> Cardinality({t \in Sessions : joinCode[t].code = k.code}),
                            released |-> FALSE]
                    ELSE IF s \in k.frees THEN [joinCode[s] EXCEPT !.released = TRUE]
                    ELSE joinCode[s]]
  /\ requests' = [requests EXCEPT ![<<k.user, k.key>>] =
                    [game |-> k.game, outcome |-> "created", session |-> k.session]]
  /\ Answered(k.user, k.key, "created", k.session, k.code)
  /\ call' = [call EXCEPT ![c] = Idle]
  /\ UNCHANGED <<now, current, starting>>

\* A statement or the commit fails, or no free code was found: everything,
\* the claim included, is undone.
Rollback(c) ==
  /\ c \in InFlight
  /\ call' = [call EXCEPT ![c] = Idle]
  /\ UNCHANGED <<now, current, row, joinCode, requests, starting, answers>>

-----------------------------------------------------------------------------
(* The transactions that start and end a Session, on its locked row. *)

\* The update waits for a creation that has the Session's code row in hand.
ReleaseCode(s) ==
  /\ ~joinCode[s].released => ~CodeInFlight(joinCode[s].code)
  /\ joinCode' = [joinCode EXCEPT ![s].released = TRUE]

OpenStart(s) ==
  /\ row[s].status = Lobby
  /\ now < row[s].lobbyExpires
  /\ starting[s] = NoStart
  /\ starting' = [starting EXCEPT ![s] = now]
  /\ UNCHANGED <<now, current, row, joinCode, requests, call, answers>>

CommitStart(s) ==
  /\ starting[s] # NoStart
  /\ row' = [row EXCEPT ![s].status = Running]
  /\ ReleaseCode(s)
  /\ starting' = [starting EXCEPT ![s] = NoStart]
  /\ UNCHANGED <<now, current, requests, call, answers>>

RollbackStart(s) ==
  /\ starting[s] # NoStart
  /\ starting' = [starting EXCEPT ![s] = NoStart]
  /\ UNCHANGED <<now, current, row, joinCode, requests, call, answers>>

\* An owner or a reconciliation pass ends it.
EndSession(s) ==
  /\ row[s].status \in LiveStatus
  /\ starting[s] = NoStart
  /\ row' = [row EXCEPT ![s].status = Ended]
  /\ ReleaseCode(s)
  /\ UNCHANGED <<now, current, requests, call, starting, answers>>

CallStep(c) ==
  \/ \E u \in Users, k \in Keys, g \in Games : Claim(c, u, k, g)
  \/ CountActive(c)
  \/ RefuseOverLimit(c)
  \/ RefuseUnavailable(c)
  \/ \E s \in Sessions : InsertSession(c, s)
  \/ \E code \in Codes : DrawCode(c, code)
  \/ CommitCreation(c)
  \/ Rollback(c)

SessionStep(s) ==
  \/ OpenStart(s)
  \/ CommitStart(s)
  \/ RollbackStart(s)
  \/ EndSession(s)

Next ==
  \/ Tick
  \/ \E g \in Games : Publish(g)
  \/ \E u \in Users, k \in Keys, g \in Games : Replay(u, k, g)
  \/ \E c \in Calls : CallStep(c)
  \/ \E s \in Sessions : SessionStep(s)

Spec == Init /\ [][Next]_vars

\* A call goes on by itself once nothing it waits for is held; Postgres grants
\* locks in the order they were asked for. Running out of attempts fails it.
Fairness ==
  \A c \in Calls :
    /\ SF_vars(CountActive(c))
    /\ WF_vars(RefuseOverLimit(c) \/ RefuseUnavailable(c) \/ CommitCreation(c))
    /\ WF_vars(\E s \in Sessions : InsertSession(c, s))
    /\ SF_vars(\E code \in Codes : DrawCode(c, code))
    /\ WF_vars(call[c].step = "drawing" /\ call[c].tries = MaxAttempts /\ Rollback(c))

FairSpec == Spec /\ Fairness

-----------------------------------------------------------------------------
(* Resolving a join code. *)

\* FindLatestJoinCode: the Session most recently given the code, if any.
Latest(code) ==
  {s \in Sessions : joinCode[s].code = code
                      /\ \A t \in Sessions : joinCode[t].code = code => joinCode[t].id <= joinCode[s].id}

\* The Session players with the code can join now, if any.
ResolveJoinCode(code) ==
  {s \in Latest(code) : row[s].status = Lobby /\ now < row[s].lobbyExpires}

-----------------------------------------------------------------------------
(* Properties. *)

OpenLobbies == {s \in Sessions : row[s].status = Lobby /\ now < row[s].lobbyExpires}

\* Whatever is retried, raced, lost or rolled back, every answer given to one
\* user and key is the same: outcome, Session and join code.
OneAnswerPerRequest ==
  \A a, b \in answers : a.user = b.user /\ a.key = b.key => a = b

\* Every Session that exists is the one its creator's request was answered
\* with, so no retry and no rolled back attempt leaves a Session nobody knows.
EverySessionWasAskedForOnce ==
  \A s \in Sessions :
    row[s] # NoRow =>
      \E k \in Keys :
        /\ requests[<<row[s].creator, k>>] # NoRequest
        /\ requests[<<row[s].creator, k>>].session = s
        /\ \A other \in (Users \X Keys) \ {<<row[s].creator, k>>} :
             requests[other] # NoRequest => requests[other].session # s

\* The code an open lobby was given leads players to that lobby, although
\* codes are reused, released by other creations and drawn concurrently.
JoinableIsResolvable ==
  \A s \in OpenLobbies : ResolveJoinCode(joinCode[s].code) = {s}

\* No two join codes not yet released are the same, so the most recent
\* assignment of a code is its only live one.
ActiveCodesAreUnique ==
  \A s \in Sessions : joinCode[s] # NoJoinCode /\ ~joinCode[s].released
                        => s \in Latest(joinCode[s].code)

\* Concurrent creations never open more lobbies for one creator than allowed.
OpenLobbiesWithinLimit ==
  \A u \in Users : Cardinality({s \in OpenLobbies : row[s].creator = u}) <= MaxActive

\* What DefaultMaxActiveSessionsPerCreator says: open lobbies and running
\* Sessions together. The code does not keep it: a start that read the clock
\* before its lobby expired may commit after a creation counted it as expired.
ActiveSessionsWithinLimit ==
  \A u \in Users : Cardinality(ActiveSessions(u, now)) <= MaxActive

\* A creation always ends, however long the locks it needs are held and
\* however often the codes it draws are taken.
CreationsEnd == \A c \in Calls : c \in InFlight ~> c \notin InFlight

\* CreateSession's idempotency: one answer per request, and one Session per
\* answer.
CreatedOnce == OneAnswerPerRequest /\ EverySessionWasAskedForOnce

\* A join code in use is nobody else's, and leads to its lobby.
CodesLeadToTheirLobby == JoinableIsResolvable /\ ActiveCodesAreUnique
=============================================================================
