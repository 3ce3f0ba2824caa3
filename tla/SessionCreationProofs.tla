------------------------ MODULE SessionCreationProofs ------------------------
(***************************************************************************)
(* SessionCreation for any users, keys, codes, concurrent calls and        *)
(* limits: one answer and one Session per request, codes that lead to      *)
(* their lobby, and the limit on a creator's open lobbies.                 *)
(***************************************************************************)
EXTENDS SessionCreation, FiniteSetTheorems, TLAPS

OpenLobbiesOf(user) == {s \in OpenLobbies : row[s].creator = user}
GivenCode(code) == {s \in Sessions : joinCode[s].code = code}
Counted == {c \in InFlight : call[c].step # "claimed"}
Placed == {c \in InFlight : call[c].step \in {"drawing", "coded"}}
Coded == {c \in InFlight : call[c].step = "coded"}

\* What each statement waits for keeps two transactions off one request, one
\* creator's count, one Session and one code.
Apart(c, d) ==
  /\ ~(call[c].user = call[d].user /\ call[c].key = call[d].key)
  /\ ~(c \in Counted /\ d \in Counted /\ call[c].user = call[d].user)
  /\ ~(c \in Placed /\ d \in Placed /\ call[c].session = call[d].session)
  /\ ~(c \in Coded /\ d \in Coded /\ call[c].code = call[d].code)
CallsAreApart == \A c \in InFlight : \A d \in InFlight \ {c} : Apart(c, d)

\* What a transaction in flight read still holds when it commits.
Current(c) ==
  /\ requests[<<call[c].user, call[c].key>>] = NoRequest
  /\ c \in Counted => /\ call[c].at <= now
                      /\ Cardinality(OpenLobbiesOf(call[c].user)) <= call[c].active
  /\ c \in Placed => /\ call[c].session \in Sessions
                     /\ row[call[c].session] = NoRow
                     /\ call[c].active < MaxActive
  /\ c \in Coded => /\ call[c].code \in Codes
                    /\ call[c].frees = Holders(call[c].code)
                    /\ \A s \in call[c].frees : row[s].lobbyExpires <= call[c].at
CallsAreCurrent == \A c \in InFlight : Current(c)

\* A Session has a row, a join code and a completed request, or none of them.
SessionsAreWhole ==
  \A s \in Sessions :
    /\ row[s] = NoRow <=> joinCode[s] = NoJoinCode
    /\ row[s] # NoRow => \E k \in Keys : /\ requests[<<row[s].creator, k>>] # NoRequest
                                         /\ requests[<<row[s].creator, k>>].session = s
    /\ starting[s] # NoStart => row[s].status = Lobby
    /\ s \in OpenLobbies => ~joinCode[s].released

\* A completed request has a Session of its own exactly when it created one.
RequestsAreApart ==
  \A uk \in Users \X Keys :
    requests[uk] # NoRequest =>
      /\ requests[uk].outcome = "created" =>
           requests[uk].session \in Sessions /\ row[requests[uk].session] # NoRow
      /\ requests[uk].outcome # "created" => requests[uk].session = NoSession
      /\ \A other \in Users \X Keys :
           requests[other] # NoRequest /\ requests[uk].session \in Sessions
             /\ requests[other].session = requests[uk].session => other = uk

\* Every answer given is the one its completed request gives again.
Kept(a) ==
  /\ requests[<<a.user, a.key>>] # NoRequest
  /\ a.outcome = requests[<<a.user, a.key>>].outcome
  /\ a.session = requests[<<a.user, a.key>>].session
  /\ a.outcome = "created" => a.code = joinCode[a.session].code
  /\ a.outcome # "created" => a.code = NoSession
AnswersAreKept == \A a \in answers : Kept(a)

\* The assignments of one code are numbered in the order they were made.
CodesAreOrdered ==
  \A s \in Sessions :
    joinCode[s] # NoJoinCode =>
      /\ joinCode[s].id < Cardinality(GivenCode(joinCode[s].code))
      /\ \A t \in GivenCode(joinCode[s].code) : joinCode[t].id = joinCode[s].id => t = s
      /\ ~joinCode[s].released => s \in Latest(joinCode[s].code)

\* Inductive.
CreationInv ==
  /\ TypeOK
  /\ CallsAreApart
  /\ CallsAreCurrent
  /\ SessionsAreWhole
  /\ RequestsAreApart
  /\ AnswersAreKept
  /\ CodesAreOrdered
  /\ OpenLobbiesWithinLimit

-----------------------------------------------------------------------------
(* Type correctness. *)

\* A call in flight, a row, a join code and a completed request are records.
LEMMA Records ==
  ASSUME TypeOK
  PROVE  /\ \A c \in InFlight : call[c] \in Call
         /\ \A c \in Calls : c \notin InFlight => call[c] = Idle
         /\ \A s \in Sessions : row[s] # NoRow => row[s] \in Row
         /\ \A s \in Sessions : joinCode[s] # NoJoinCode => joinCode[s] \in JoinCode
         /\ \A uk \in Users \X Keys : requests[uk] # NoRequest => requests[uk] \in Request
<1>1. \A c \in Calls : IF call[c].step # "idle" THEN call[c] \in Call ELSE call[c] = Idle
  BY DEF TypeOK, Call, Idle
<1>2. QED
  BY <1>1 DEF TypeOK, InFlight

\* Releasing a code changes neither the code nor its number.
LEMMA Releasing ==
  ASSUME TypeOK, NEW s \in Sessions, joinCode[s] # NoJoinCode
  PROVE  LET freed == [joinCode[s] EXCEPT !.released = TRUE] IN
         /\ freed \in JoinCode
         /\ freed # NoJoinCode
         /\ freed.code = joinCode[s].code
         /\ freed.id = joinCode[s].id
         /\ freed.released
<1>1. joinCode[s] \in JoinCode
  BY DEF TypeOK
<1>2. \A j \in JoinCode : j # NoJoinCode
  BY SessionCreationAssumption DEF JoinCode, NoJoinCode
<1>3. QED
  BY <1>1, <1>2 DEF JoinCode

\* Counting Sessions gives a natural number.
LEMMA CountsAreNat ==
  ASSUME NEW S \in SUBSET Sessions
  PROVE  IsFiniteSet(S) /\ Cardinality(S) \in Nat
  BY FS_Subset, FS_CardinalityType, SessionCreationAssumption

\* What a creation commits is a Session and a code it took.
LEMMA CommitsWhole ==
  ASSUME TypeOK, CallsAreCurrent, NEW c \in Calls, CommitCreation(c)
  PROVE  /\ c \in Coded /\ c \in Placed /\ c \in Counted /\ c \in InFlight
         /\ call[c] \in Call
         /\ call[c].session \in Sessions /\ call[c].code \in Codes
<1>1. c \in InFlight /\ c \in Coded /\ c \in Placed /\ c \in Counted
  BY DEF CommitCreation, InFlight, Coded, Placed, Counted
<1>2. QED
  BY <1>1, Records DEF CallsAreCurrent, Current

\* A step of a creation keeps each variable's type.
LEMMA CallType ==
  ASSUME TypeOK, CallsAreCurrent, NEW c \in Calls, CallStep(c)
  PROVE  TypeOK'
<1> USE SessionCreationAssumption
<1>1. ASSUME NEW u \in Users, NEW k \in Keys, NEW g \in Games, Claim(c, u, k, g)
      PROVE  TypeOK'
  <2>1. call'[c] \in Call
    BY <1>1 DEF Claim, TypeOK, Call
  <2>2. QED
    BY <1>1, <2>1 DEF Claim, TypeOK
<1>2. CASE CountActive(c)
  <2>1. call[c] \in Call
    BY <1>2, Records DEF CountActive, InFlight
  <2>2. Cardinality(ActiveSessions(call[c].user, now)) \in Nat
    BY CountsAreNat DEF ActiveSessions
  <2>3. call'[c] \in Call
    BY <1>2, <2>1, <2>2 DEF CountActive, TypeOK, Call
  <2>4. QED
    BY <1>2, <2>3 DEF CountActive, TypeOK
<1>3. ASSUME NEW outcome \in {"active_session_limit", "game_unavailable"},
             call[c].step = "counted", Refuse(c, outcome)
      PROVE  TypeOK'
  <2>1. call[c] \in Call
    BY <1>3, Records DEF InFlight
  <2>2. [game |-> call[c].game, outcome |-> outcome, session |-> NoSession] \in Request
    BY <1>3, <2>1 DEF Call, Request
  <2>3. answers' \subseteq Answer
    BY <1>3, <2>1 DEF Refuse, Answered, TypeOK, Call, Answer
  <2>4. QED
    BY <1>3, <2>2, <2>3 DEF Refuse, TypeOK
<1>4. ASSUME NEW s \in Sessions, InsertSession(c, s)
      PROVE  TypeOK'
  <2>1. call[c] \in Call
    BY <1>4, Records DEF InsertSession, InFlight
  <2>2. call'[c] \in Call
    BY <1>4, <2>1 DEF InsertSession, TypeOK, Call
  <2>3. QED
    BY <1>4, <2>2 DEF InsertSession, TypeOK
<1>5. ASSUME NEW code \in Codes, DrawCode(c, code)
      PROVE  TypeOK'
  <2>1. call[c] \in Call
    BY <1>5, Records DEF DrawCode, InFlight
  <2>2. call'[c] \in Call
    BY <1>5, <2>1 DEF DrawCode, TypeOK, Call, Holders
  <2>3. QED
    BY <1>5, <2>2 DEF DrawCode, TypeOK
<1>6. CASE Rollback(c)
  BY <1>6 DEF Rollback, TypeOK
<1>7. CASE CommitCreation(c)
  <2> DEFINE k == call[c]
  <2>1. k \in Call
    BY <1>7, Records DEF CommitCreation, InFlight
  <2>2. CASE k.session \in Sessions /\ k.code \in Codes
    <3>1. [status |-> Lobby, creator |-> k.user, lobbyExpires |-> k.at + LobbyTTL] \in Row
      BY <2>1 DEF Call, Row
    <3>2. row' \in [Sessions -> Row \cup {NoRow}]
      BY <1>7, <3>1 DEF CommitCreation, TypeOK
    <3>3. Cardinality(GivenCode(k.code)) \in Nat
      BY CountsAreNat DEF GivenCode
    <3>4. ASSUME NEW s \in Sessions
          PROVE  joinCode'[s] \in JoinCode \cup {NoJoinCode}
      <4>1. s \in k.frees => [joinCode[s] EXCEPT !.released = TRUE] \in JoinCode
        <5>1. s \in k.frees => ~joinCode[s].released
          BY <1>7, CommitsWhole DEF CallsAreCurrent, Current, Holders
        <5>2. QED
          BY <5>1, Releasing DEF NoJoinCode
      <4>2. [code |-> k.code, id |-> Cardinality(GivenCode(k.code)), released |-> FALSE] \in JoinCode
        BY <2>2, <3>3 DEF JoinCode
      <4>3. QED
        BY <1>7, <4>1, <4>2 DEF CommitCreation, TypeOK, GivenCode
    <3>5. [game |-> k.game, outcome |-> "created", session |-> k.session] \in Request
      BY <2>1, <2>2 DEF Call, Request
    <3>6. requests' \in [Users \X Keys -> Request \cup {NoRequest}]
      BY <1>7, <3>5 DEF CommitCreation, TypeOK
    <3>7. answers' \subseteq Answer
      BY <1>7, <2>1, <2>2 DEF CommitCreation, Answered, TypeOK, Call, Answer
    <3>8. joinCode' \in [Sessions -> JoinCode \cup {NoJoinCode}]
      BY <1>7, <3>4 DEF CommitCreation
    <3>9. call' \in [Calls -> Call \cup {Idle}]
      BY <1>7 DEF CommitCreation, TypeOK
    <3>10. QED
      BY <1>7, <3>2, <3>6, <3>7, <3>8, <3>9 DEF CommitCreation, TypeOK
  <2>3. QED
    BY <1>7, <2>1, <2>2, CommitsWhole DEF CommitCreation
<1>8. QED
  BY <1>1, <1>2, <1>3, <1>4, <1>5, <1>6, <1>7 DEF CallStep, RefuseOverLimit, RefuseUnavailable
\* So does every other step.
LEMMA TypeStep ==
  ASSUME TypeOK, CallsAreCurrent, SessionsAreWhole, RequestsAreApart, [Next]_vars
  PROVE  TypeOK'
<1>1. CASE Tick
  BY <1>1 DEF Tick, TypeOK
<1>2. ASSUME NEW g \in Games, Publish(g)
      PROVE  TypeOK'
  BY <1>2 DEF Publish, TypeOK
<1>3. ASSUME NEW u \in Users, NEW k \in Keys, NEW g \in Games, Replay(u, k, g)
      PROVE  TypeOK'
  <2> DEFINE existing == requests[<<u, k>>]
  <2>1. existing \in Request
    BY <1>3, Records DEF Replay
  <2>2. CASE existing.outcome = "created"
    <3>1. existing.session \in Sessions /\ joinCode[existing.session] # NoJoinCode
      BY <1>3, <2>2 DEF Replay, RequestsAreApart, SessionsAreWhole
    <3>2. joinCode[existing.session].code \in Codes
      BY <3>1, Records DEF JoinCode
    <3>3. answers' \subseteq Answer
      BY <1>3, <2>2, <3>1, <3>2 DEF Replay, Answered, TypeOK, Answer
    <3>4. QED
      BY <1>3, <3>3 DEF Replay, TypeOK
  <2>3. CASE existing.outcome # "created"
    <3>1. answers' \subseteq Answer
      BY <1>3, <2>1, <2>3 DEF Replay, Answered, TypeOK, Answer, Request
    <3>2. QED
      BY <1>3, <3>1 DEF Replay, TypeOK
  <2>4. QED
    BY <2>2, <2>3
<1>4. ASSUME NEW c \in Calls, CallStep(c)
      PROVE  TypeOK'
  BY <1>4, CallType
<1>5. ASSUME NEW s \in Sessions, SessionStep(s)
      PROVE  TypeOK'
  <2>1. row[s] # NoRow => [joinCode[s] EXCEPT !.released = TRUE] \in JoinCode
    BY Releasing DEF SessionsAreWhole
  <2>2. CASE OpenStart(s)
    BY <2>2 DEF OpenStart, TypeOK
  <2>3. CASE CommitStart(s)
    <3>1. row[s] # NoRow /\ [row[s] EXCEPT !.status = Running] \in Row
      BY <2>3, Records DEF CommitStart, SessionsAreWhole, Row, NoRow, Absent, Lobby, Running
    <3>2. QED
      BY <2>1, <2>3, <3>1 DEF CommitStart, ReleaseCode, TypeOK
  <2>4. CASE RollbackStart(s)
    BY <2>4 DEF RollbackStart, TypeOK
  <2>5. CASE EndSession(s)
    <3>1. row[s] # NoRow /\ [row[s] EXCEPT !.status = Ended] \in Row
      BY <2>5, Records DEF EndSession, Row, NoRow, LiveStatus, Absent, Lobby, Running, Ended
    <3>2. QED
      BY <2>1, <2>5, <3>1 DEF EndSession, ReleaseCode, TypeOK
  <2>6. QED
    BY <1>5, <2>2, <2>3, <2>4, <2>5 DEF SessionStep
<1>6. CASE UNCHANGED vars
  BY <1>6 DEF vars, TypeOK
<1>7. QED
  BY <1>1, <1>2, <1>3, <1>4, <1>5, <1>6 DEF Next

-----------------------------------------------------------------------------
(* The steps that only change a call. *)

\* Such a step leaves what was committed, and its counts, as they are.
LEMMA CommittedUnchanged ==
  ASSUME CreationInv, UNCHANGED <<now, row, joinCode, requests, starting, answers>>
  PROVE  /\ SessionsAreWhole' /\ RequestsAreApart' /\ AnswersAreKept' /\ CodesAreOrdered'
         /\ OpenLobbiesWithinLimit'
<1>1. SessionsAreWhole' /\ RequestsAreApart' /\ AnswersAreKept'
  BY DEF CreationInv, SessionsAreWhole, RequestsAreApart, AnswersAreKept, Kept, OpenLobbies
<1>2. CodesAreOrdered'
  BY DEF CreationInv, CodesAreOrdered, GivenCode, Latest
<1>3. OpenLobbiesWithinLimit'
  BY DEF CreationInv, OpenLobbiesWithinLimit, OpenLobbies
<1>4. QED
  BY <1>1, <1>2, <1>3

\* What a call read holds on while others change what it does not depend on.
LEMMA KeptCurrent ==
  ASSUME CreationInv, NEW c \in InFlight, call'[c] = call[c], now' \in Nat, now <= now',
         requests'[<<call[c].user, call[c].key>>] = requests[<<call[c].user, call[c].key>>],
         c \in Counted => OpenLobbiesOf(call[c].user)' \subseteq OpenLobbiesOf(call[c].user),
         c \in Placed => row'[call[c].session] = row[call[c].session],
         c \in Coded => /\ Holders(call[c].code)' = Holders(call[c].code)
                       /\ \A s \in call[c].frees : row'[s].lobbyExpires = row[s].lobbyExpires
  PROVE  Current(c)'
<1>1. call[c] \in Call /\ now \in Nat
  BY Records DEF CreationInv, TypeOK
<1>2. /\ (c \in Counted)' <=> c \in Counted
      /\ (c \in Placed)' <=> c \in Placed
      /\ (c \in Coded)' <=> c \in Coded
  BY DEF Counted, Placed, Coded, InFlight
<1>3. Current(c)
  BY DEF CreationInv, CallsAreCurrent
<1>4. c \in Counted => /\ call[c].at <= now'
                        /\ Cardinality(OpenLobbiesOf(call[c].user)') <= call[c].active
  <2>1. /\ OpenLobbiesOf(call[c].user) \subseteq Sessions
        /\ c \in Counted => OpenLobbiesOf(call[c].user)' \subseteq Sessions
    BY DEF OpenLobbiesOf, OpenLobbies
  <2>2. c \in Counted => Cardinality(OpenLobbiesOf(call[c].user)')
                           <= Cardinality(OpenLobbiesOf(call[c].user))
    BY <2>1, CountsAreNat, FS_Subset
  <2>3. QED
    BY <1>1, <1>3, <2>1, <2>2, CountsAreNat DEF Current, Call
<1>5. QED
  BY <1>2, <1>3, <1>4 DEF Current

\* In particular while the committed rows do not change.
LEMMA StillCurrent ==
  ASSUME CreationInv, UNCHANGED <<now, row, joinCode, requests>>,
         NEW c \in InFlight, call'[c] = call[c]
  PROVE  Current(c)'
<1>1. /\ OpenLobbiesOf(call[c].user)' = OpenLobbiesOf(call[c].user)
      /\ Holders(call[c].code)' = Holders(call[c].code)
  BY DEF OpenLobbiesOf, OpenLobbies, Holders
<1>2. now \in Nat
  BY DEF CreationInv, TypeOK
<1>3. QED
  BY <1>1, <1>2, KeptCurrent

\* No step that only closes lobbies breaks the limit.
LEMMA FewerLobbies ==
  ASSUME CreationInv, \A u \in Users : OpenLobbiesOf(u)' \subseteq OpenLobbiesOf(u)
  PROVE  OpenLobbiesWithinLimit'
<1>1. ASSUME NEW u \in Users
      PROVE  Cardinality(OpenLobbiesOf(u)') <= MaxActive
  <2>1. OpenLobbiesOf(u) \subseteq Sessions /\ OpenLobbiesOf(u)' \subseteq Sessions
    BY DEF OpenLobbiesOf, OpenLobbies
  <2>2. Cardinality(OpenLobbiesOf(u)) <= MaxActive
    BY DEF CreationInv, OpenLobbiesWithinLimit, OpenLobbiesOf
  <2>3. Cardinality(OpenLobbiesOf(u)') <= Cardinality(OpenLobbiesOf(u))
    BY <2>1, CountsAreNat, FS_Subset
  <2>4. QED
    BY <2>1, <2>2, <2>3, CountsAreNat, SessionCreationAssumption
<1>2. QED
  BY <1>1 DEF OpenLobbiesWithinLimit, OpenLobbiesOf

\* Calls stay apart when the one that took a step is apart from the others.
LEMMA StillApart ==
  ASSUME CreationInv, NEW c \in Calls, \A d \in Calls \ {c} : call'[d] = call[d],
         \A d \in InFlight \ {c} : Apart(c, d)'
  PROVE  CallsAreApart'
<1>1. ASSUME NEW d \in InFlight', NEW e \in InFlight', d # e
      PROVE  Apart(d, e)'
  <2>1. CASE d = c
    BY <1>1, <2>1 DEF InFlight
  <2>2. CASE e = c
    BY <1>1, <2>2 DEF InFlight, Apart
  <2>3. CASE d # c /\ e # c
    BY <1>1, <2>3 DEF CreationInv, CallsAreApart, InFlight, Apart, Counted, Placed, Coded
  <2>4. QED
    BY <2>1, <2>2, <2>3
<1>2. QED
  BY <1>1 DEF CallsAreApart

\* Claim: nobody else has the request in flight or completed.
LEMMA ClaimStep ==
  ASSUME CreationInv, TypeOK', NEW c \in Calls,
         NEW user \in Users, NEW key \in Keys, NEW game \in Games, Claim(c, user, key, game)
  PROVE  CreationInv'
<1>1. /\ call'[c].step = "claimed" /\ call'[c].user = user /\ call'[c].key = key
      /\ \A d \in Calls \ {c} : call'[d] = call[d]
  BY DEF Claim, CreationInv, TypeOK
<1>2. /\ InFlight' = InFlight \cup {c} /\ c \notin InFlight
      /\ c \notin Counted' /\ c \notin Placed' /\ c \notin Coded'
  BY <1>1 DEF Claim, InFlight, Counted, Placed, Coded, Idle
<1>3. CallsAreApart'
  <2>1. \A d \in InFlight \ {c} : Apart(c, d)'
    BY <1>1, <1>2 DEF Apart, Claim, ClaimInFlight, InFlight
  <2>2. QED
    BY <1>1, <2>1, StillApart
<1>4. CallsAreCurrent'
  <2>1. Current(c)'
    BY <1>1, <1>2 DEF Current, Claim
  <2>2. QED
    BY <1>1, <1>2, <2>1, StillCurrent DEF CallsAreCurrent, Claim, InFlight
<1>5. QED
  BY <1>3, <1>4, CommittedUnchanged DEF CreationInv, Claim

\* CountActive: every lobby still open was counted.
LEMMA CountStep ==
  ASSUME CreationInv, TypeOK', NEW c \in Calls, CountActive(c)
  PROVE  CreationInv'
<1>1. call[c] \in Call /\ c \in InFlight
  BY Records DEF CountActive, InFlight, CreationInv
<1>2. /\ call'[c].step = "counted" /\ call'[c].user = call[c].user /\ call'[c].key = call[c].key
      /\ call'[c].at = now
      /\ call'[c].active = Cardinality(ActiveSessions(call[c].user, now))
      /\ \A d \in Calls \ {c} : call'[d] = call[d]
  BY <1>1 DEF CountActive, CreationInv, TypeOK, Call
<1>3. /\ InFlight' = InFlight /\ Counted' = Counted \cup {c}
      /\ c \notin Placed' /\ c \notin Coded'
  BY <1>1, <1>2 DEF CountActive, InFlight, Counted, Placed, Coded
<1>4. CallsAreApart'
  <2>1. ASSUME NEW d \in InFlight \ {c}
        PROVE  Apart(c, d)'
    <3>1. d \notin Counted \/ call[d].user # call[c].user
      BY DEF CountActive, CreatorLocked, Counted
    <3>2. Apart(c, d)
      BY <1>1 DEF CreationInv, CallsAreApart
    <3>3. QED
      BY <1>2, <1>3, <3>1, <3>2 DEF Apart, InFlight
  <2>2. QED
    BY <1>2, <2>1, StillApart
<1>5. Cardinality(OpenLobbiesOf(call[c].user)) <= Cardinality(ActiveSessions(call[c].user, now))
  <2>1. OpenLobbiesOf(call[c].user) \subseteq ActiveSessions(call[c].user, now)
    BY DEF OpenLobbiesOf, OpenLobbies, ActiveSessions, CreationInv, TypeOK, Row, NoRow
  <2>2. IsFiniteSet(ActiveSessions(call[c].user, now))
    BY CountsAreNat DEF ActiveSessions
  <2>3. QED
    BY <2>1, <2>2, FS_Subset
<1>6. CallsAreCurrent'
  <2>1. OpenLobbiesOf(call[c].user)' = OpenLobbiesOf(call[c].user)
    BY <1>2 DEF CountActive, OpenLobbiesOf, OpenLobbies
  <2>2. Current(c)'
    BY <1>1, <1>2, <1>3, <1>5, <2>1
       DEF CreationInv, CallsAreCurrent, Current, CountActive, TypeOK
  <2>3. QED
    BY <1>2, <1>3, <2>2, StillCurrent DEF CallsAreCurrent, CountActive, InFlight
<1>7. QED
  BY <1>4, <1>6, CommittedUnchanged DEF CreationInv, CountActive

\* InsertSession: the Session is nobody else's.
LEMMA InsertStep ==
  ASSUME CreationInv, TypeOK', NEW c \in Calls, NEW s \in Sessions, InsertSession(c, s)
  PROVE  CreationInv'
<1>1. call[c] \in Call /\ c \in InFlight
  BY Records DEF InsertSession, InFlight, CreationInv
<1>2. /\ call'[c].step = "drawing" /\ call'[c].user = call[c].user /\ call'[c].key = call[c].key
      /\ call'[c].at = call[c].at /\ call'[c].active = call[c].active /\ call'[c].session = s
      /\ \A d \in Calls \ {c} : call'[d] = call[d]
  BY <1>1 DEF InsertSession, CreationInv, TypeOK, Call
<1>3. InFlight' = InFlight /\ c \in Counted /\ c \notin Coded'
  BY <1>1, <1>2 DEF InsertSession, InFlight, Counted, Coded
<1>4. CallsAreApart'
  <2>1. ASSUME NEW d \in InFlight \ {c}
        PROVE  Apart(c, d)'
    <3>1. Apart(c, d) /\ call[d].session # s
      BY <1>1 DEF CreationInv, CallsAreApart, InsertSession
    <3>2. d \in Counted' <=> d \in Counted
      BY <1>2 DEF Counted, InFlight
    <3>3. QED
      BY <1>2, <1>3, <3>1, <3>2 DEF Apart, InFlight
  <2>2. QED
    BY <1>2, <2>1, StillApart
<1>5. CallsAreCurrent'
  <2>1. OpenLobbiesOf(call[c].user)' = OpenLobbiesOf(call[c].user)
    BY <1>2 DEF InsertSession, OpenLobbiesOf, OpenLobbies
  <2>2. Current(c)'
    BY <1>1, <1>2, <1>3, <2>1 DEF CreationInv, CallsAreCurrent, Current, InsertSession
  <2>3. QED
    BY <1>2, <1>3, <2>2, StillCurrent DEF CallsAreCurrent, InsertSession, InFlight
<1>6. QED
  BY <1>4, <1>5, CommittedUnchanged DEF CreationInv, InsertSession

\* DrawCode: the code is in nobody else's hands and its holders are expired.
LEMMA DrawStep ==
  ASSUME CreationInv, TypeOK', NEW c \in Calls, NEW code \in Codes, DrawCode(c, code)
  PROVE  CreationInv'
<1> DEFINE free == \A s \in Holders(code) : row[s].lobbyExpires <= call[c].at
<1>1. call[c] \in Call /\ c \in InFlight
  BY Records DEF DrawCode, InFlight, CreationInv
<1>2. /\ free => call'[c].step = "coded" /\ call'[c].code = code /\ call'[c].frees = Holders(code)
      /\ ~free => call'[c].step = "drawing"
      /\ call'[c].user = call[c].user /\ call'[c].key = call[c].key /\ call'[c].at = call[c].at
      /\ call'[c].active = call[c].active /\ call'[c].session = call[c].session
      /\ \A d \in Calls \ {c} : call'[d] = call[d]
  BY <1>1 DEF DrawCode, CreationInv, TypeOK, Call
<1>3. /\ InFlight' = InFlight /\ c \in Counted /\ c \in Placed
      /\ c \in Coded' => free
  BY <1>1, <1>2 DEF DrawCode, InFlight, Counted, Placed, Coded
<1>4. CallsAreApart'
  <2>1. ASSUME NEW d \in InFlight \ {c}
        PROVE  Apart(c, d)'
    <3>1. Apart(c, d) /\ (d \in Coded => call[d].code # code)
      BY <1>1 DEF CreationInv, CallsAreApart, DrawCode, CodeInFlight, Coded
    <3>2. /\ d \in Counted' <=> d \in Counted
          /\ d \in Placed' <=> d \in Placed
          /\ d \in Coded' <=> d \in Coded
      BY <1>2 DEF Counted, Placed, Coded, InFlight
    <3>3. QED
      BY <1>2, <1>3, <3>1, <3>2 DEF Apart, InFlight
  <2>2. QED
    BY <1>2, <2>1, StillApart
<1>5. CallsAreCurrent'
  <2>1. OpenLobbiesOf(call[c].user)' = OpenLobbiesOf(call[c].user)
    BY <1>2 DEF DrawCode, OpenLobbiesOf, OpenLobbies
  <2>2. free => Holders(call[c].code)' = Holders(code)
    BY <1>2 DEF DrawCode, Holders
  <2>3. Current(c)'
    BY <1>1, <1>2, <1>3, <2>1, <2>2 DEF CreationInv, CallsAreCurrent, Current, DrawCode
  <2>4. QED
    BY <1>2, <1>3, <2>3, StillCurrent DEF CallsAreCurrent, DrawCode, InFlight
<1>6. QED
  BY <1>4, <1>5, CommittedUnchanged DEF CreationInv, DrawCode

\* A call that ends leaves the others as they were.
LEMMA CallEnds ==
  ASSUME CreationInv, NEW c \in InFlight, call' = [call EXCEPT ![c] = Idle]
  PROVE  /\ InFlight' = InFlight \ {c}
         /\ \A d \in InFlight' : call'[d] = call[d]
         /\ CallsAreApart'
<1>1. InFlight' = InFlight \ {c} /\ \A d \in Calls \ {c} : call'[d] = call[d]
  BY DEF CreationInv, TypeOK, InFlight, Idle
<1>2. ASSUME NEW d \in InFlight', NEW e \in InFlight', d # e
      PROVE  Apart(d, e)'
  BY <1>1, <1>2 DEF CreationInv, CallsAreApart, InFlight, Apart, Counted, Placed, Coded
<1>3. QED
  BY <1>1, <1>2 DEF CallsAreApart, InFlight

\* Rollback undoes all of a call, so nothing is kept of it.
LEMMA RollbackStep ==
  ASSUME CreationInv, TypeOK', NEW c \in Calls, Rollback(c)
  PROVE  CreationInv'
<1>1. CallsAreCurrent'
  BY CallEnds, StillCurrent DEF Rollback, CallsAreCurrent
<1>2. QED
  BY <1>1, CallEnds, CommittedUnchanged DEF CreationInv, Rollback

-----------------------------------------------------------------------------
(* The steps that answer a caller or commit. *)

\* Tick, Publish, OpenStart and RollbackStart: at most lobbies expire.
LEMMA QuietStep ==
  ASSUME CreationInv, TypeOK', UNCHANGED <<row, joinCode, requests, call, answers>>, now <= now',
         \A s \in Sessions : starting'[s] \in {starting[s], NoStart} \/ row[s].status = Lobby
  PROVE  CreationInv'
<1>1. now \in Nat /\ now' \in Nat /\ \A s \in Sessions : row[s].lobbyExpires \in Nat
  BY DEF CreationInv, TypeOK, Row, NoRow
<1>2. OpenLobbies' \subseteq OpenLobbies /\ \A u : OpenLobbiesOf(u)' \subseteq OpenLobbiesOf(u)
  BY <1>1 DEF OpenLobbiesOf, OpenLobbies
<1>3. \A code : Holders(code)' = Holders(code)
  BY DEF Holders
<1>4. CallsAreCurrent'
  BY <1>1, <1>2, <1>3, KeptCurrent DEF CallsAreCurrent, InFlight
<1>5. CallsAreApart'
  BY DEF CreationInv, CallsAreApart, Apart, InFlight, Counted, Placed, Coded
<1>6. SessionsAreWhole'
  BY <1>2 DEF CreationInv, SessionsAreWhole, NoStart
<1>7. RequestsAreApart' /\ AnswersAreKept'
  BY DEF CreationInv, RequestsAreApart, AnswersAreKept, Kept
<1>8. CodesAreOrdered'
  BY DEF CreationInv, CodesAreOrdered, GivenCode, Latest
<1>9. OpenLobbiesWithinLimit'
  BY <1>2, FewerLobbies
<1>10. QED
  BY <1>4, <1>5, <1>6, <1>7, <1>8, <1>9 DEF CreationInv

\* Replay answers what was answered before.
LEMMA ReplayStep ==
  ASSUME CreationInv, TypeOK', NEW user \in Users, NEW key \in Keys, NEW game \in Games,
         Replay(user, key, game)
  PROVE  CreationInv'
<1>1. AnswersAreKept'
  <2> DEFINE existing == requests[<<user, key>>]
             created == existing.outcome = "created"
  <2>1. existing # NoRequest /\ (~created => existing.session = NoSession)
    BY DEF Replay, CreationInv, RequestsAreApart
  <2>2. PICK a : a = [user |-> user, key |-> key, outcome |-> existing.outcome,
                      session |-> existing.session,
                      code |-> IF created THEN joinCode[existing.session].code ELSE NoSession]
    OBVIOUS
  <2>3. answers' = answers \cup {a}
    BY <2>1, <2>2 DEF Replay, Answered
  <2>4. Kept(a)'
    BY <2>1, <2>2 DEF Replay, Kept
  <2>5. \A old \in answers : Kept(old)'
    BY DEF Replay, CreationInv, AnswersAreKept, Kept
  <2>6. QED
    BY <2>3, <2>4, <2>5 DEF AnswersAreKept
<1>2. CallsAreApart'
  BY DEF Replay, CreationInv, CallsAreApart, Apart, InFlight, Counted, Placed, Coded
<1>3. CallsAreCurrent'
  BY StillCurrent DEF Replay, CallsAreCurrent, InFlight
<1>4. SessionsAreWhole' /\ RequestsAreApart'
  BY DEF Replay, CreationInv, SessionsAreWhole, RequestsAreApart, OpenLobbies
<1>5. CodesAreOrdered'
  BY DEF Replay, CreationInv, CodesAreOrdered, GivenCode, Latest
<1>6. OpenLobbiesWithinLimit'
  BY FewerLobbies DEF Replay, OpenLobbiesOf, OpenLobbies
<1>7. QED
  BY <1>1, <1>2, <1>3, <1>4, <1>5, <1>6 DEF CreationInv

\* A refusal completes its own request and no other.
LEMMA RefuseStep ==
  ASSUME CreationInv, TypeOK', NEW c \in Calls, NEW outcome \in {"active_session_limit", "game_unavailable"},
         call[c].step = "counted", Refuse(c, outcome)
  PROVE  CreationInv'
<1> DEFINE uk == <<call[c].user, call[c].key>>
<1>1. call[c] \in Call /\ c \in InFlight /\ uk \in Users \X Keys
  BY Records DEF InFlight, CreationInv, Call
<1>2. /\ requests[uk] = NoRequest
      /\ requests'[uk] = [game |-> call[c].game, outcome |-> outcome, session |-> NoSession]
      /\ requests'[uk] # NoRequest
      /\ \A other \in (Users \X Keys) \ {uk} : requests'[other] = requests[other]
  BY <1>1 DEF Refuse, CreationInv, CallsAreCurrent, Current, TypeOK, NoRequest
<1>3. CallsAreApart'
  BY <1>1, CallEnds DEF Refuse
<1>4. CallsAreCurrent'
  <2>1. ASSUME NEW d \in InFlight'
        PROVE  Current(d)'
    <3>1. d \in InFlight /\ d # c /\ call'[d] = call[d]
      BY <1>1, CallEnds DEF Refuse
    <3>2. <<call[d].user, call[d].key>> # uk /\ <<call[d].user, call[d].key>> \in Users \X Keys
      BY <1>1, <3>1, Records DEF CreationInv, CallsAreApart, Apart, Call
    <3>3. /\ OpenLobbiesOf(call[d].user)' = OpenLobbiesOf(call[d].user)
          /\ Holders(call[d].code)' = Holders(call[d].code)
      BY <3>1 DEF Refuse, OpenLobbiesOf, OpenLobbies, Holders
    <3>4. QED
      BY <1>2, <3>1, <3>2, <3>3, KeptCurrent DEF Refuse, CreationInv, TypeOK
  <2>2. QED
    BY <2>1 DEF CallsAreCurrent
<1>5. SessionsAreWhole'
  <2>1. OpenLobbies' = OpenLobbies
    BY DEF Refuse, OpenLobbies
  <2>2. \A s \in Sessions : row[s] # NoRow => row[s].creator \in Users
    BY Records DEF CreationInv, Row
  <2>3. QED
    BY <1>2, <2>1, <2>2 DEF Refuse, CreationInv, SessionsAreWhole
<1>6. RequestsAreApart'
  <2>1. NoSession \notin Sessions
    BY SessionCreationAssumption
  <2>2. QED
    BY <1>2, <2>1 DEF Refuse, CreationInv, RequestsAreApart
<1>7. AnswersAreKept'
  <2>1. \A a \in answers : a.user \in Users /\ a.key \in Keys
    BY DEF CreationInv, TypeOK, Answer
  <2>2. \A a \in answers : Kept(a)'
    <3>1. joinCode' = joinCode
      BY DEF Refuse
    <3>2. ASSUME NEW a \in answers
          PROVE  /\ Kept(a) /\ requests[<<a.user, a.key>>] # NoRequest
                 /\ <<a.user, a.key>> \in Users \X Keys
      BY <2>1, <3>2 DEF CreationInv, AnswersAreKept, Kept
    <3>3. \A a \in answers : requests'[<<a.user, a.key>>] = requests[<<a.user, a.key>>]
      <4> HIDE DEF uk
      <4>1. QED
        BY <1>2, <3>2
    <3>4. QED
      BY <3>1, <3>2, <3>3 DEF Kept
  <2>3. PICK a : a = [user |-> call[c].user, key |-> call[c].key, outcome |-> outcome,
                      session |-> NoSession, code |-> NoSession]
    OBVIOUS
  <2>4. answers' = answers \cup {a}
    BY <2>3 DEF Refuse, Answered
  <2>5. Kept(a)'
    BY <1>2, <2>3 DEF Kept
  <2>6. QED
    BY <2>2, <2>4, <2>5 DEF AnswersAreKept
<1>8. CodesAreOrdered'
  BY DEF Refuse, CreationInv, CodesAreOrdered, GivenCode, Latest
<1>9. OpenLobbiesWithinLimit'
  BY FewerLobbies DEF Refuse, OpenLobbiesOf, OpenLobbies
<1>10. QED
  BY <1>3, <1>4, <1>5, <1>6, <1>7, <1>8, <1>9 DEF CreationInv

\* CommitStart and EndSession: the code released is in no creation's hands.
LEMMA SettleStep ==
  ASSUME CreationInv, TypeOK', NEW s \in Sessions, row[s] # NoRow,
         NEW status \in {Running, Ended}, row' = [row EXCEPT ![s].status = status], ReleaseCode(s),
         starting' = [starting EXCEPT ![s] = NoStart],
         UNCHANGED <<now, requests, call, answers>>
  PROVE  CreationInv'
<1>1. /\ row[s] \in Row /\ joinCode[s] # NoJoinCode /\ joinCode[s] \in JoinCode
      /\ now \in Nat
  BY Records DEF CreationInv, SessionsAreWhole, TypeOK
<1>2. /\ row'[s] # NoRow /\ row'[s].status = status /\ row'[s].creator = row[s].creator
      /\ row'[s].lobbyExpires = row[s].lobbyExpires
      /\ \A t \in Sessions \ {s} : row'[t] = row[t]
  BY <1>1 DEF CreationInv, TypeOK, Row, NoRow, Running, Ended, Absent
<1>3. /\ joinCode'[s] # NoJoinCode /\ joinCode'[s].code = joinCode[s].code
      /\ joinCode'[s].id = joinCode[s].id /\ joinCode'[s].released
      /\ \A t \in Sessions \ {s} : joinCode'[t] = joinCode[t]
  BY <1>1, Releasing DEF CreationInv, TypeOK, ReleaseCode
<1>4. OpenLobbies' \subseteq OpenLobbies \ {s} /\ \A u : OpenLobbiesOf(u)' \subseteq OpenLobbiesOf(u)
  BY <1>2 DEF OpenLobbies, OpenLobbiesOf, Lobby, Running, Ended
<1>5. CallsAreCurrent'
  <2>1. ASSUME NEW c \in InFlight
        PROVE  Current(c)'
    <3>1. c \in Placed => row'[call[c].session] = row[call[c].session]
      BY <1>2 DEF CreationInv, CallsAreCurrent, Current
    <3>2. c \in Coded => /\ Holders(call[c].code)' = Holders(call[c].code)
                        /\ \A t \in call[c].frees : row'[t].lobbyExpires = row[t].lobbyExpires
      <4>1. c \in Coded => call[c].frees \subseteq Sessions
        BY Records DEF CreationInv, Call
      <4>2. c \in Coded => joinCode[s].released \/ joinCode[s].code # call[c].code
        BY DEF ReleaseCode, CodeInFlight, Coded
      <4>3. c \in Coded => Holders(call[c].code)' = Holders(call[c].code)
        BY <1>3, <4>2 DEF Holders
      <4>4. QED
        BY <1>2, <4>1, <4>3
    <3>3. QED
      BY <1>1, <1>4, <3>1, <3>2, KeptCurrent
  <2>2. QED
    BY <2>1 DEF CallsAreCurrent, InFlight
<1>6. CallsAreApart'
  BY DEF CreationInv, CallsAreApart, Apart, InFlight, Counted, Placed, Coded
<1>7. SessionsAreWhole'
  BY <1>1, <1>2, <1>3, <1>4 DEF CreationInv, SessionsAreWhole, TypeOK
<1>8. RequestsAreApart'
  BY <1>1, <1>2 DEF CreationInv, RequestsAreApart
<1>9. AnswersAreKept'
  <2>1. ASSUME NEW a \in answers
        PROVE  Kept(a)'
    <3>1. Kept(a) /\ <<a.user, a.key>> \in Users \X Keys
      BY DEF CreationInv, AnswersAreKept, TypeOK, Answer
    <3>2. a.outcome = "created" => a.session \in Sessions
      BY <3>1 DEF CreationInv, RequestsAreApart, Kept
    <3>3. QED
      BY <1>3, <3>1, <3>2 DEF Kept
  <2>2. QED
    BY <2>1 DEF AnswersAreKept
<1>10. CodesAreOrdered'
  <2>1. \A code : GivenCode(code)' = GivenCode(code) /\ Latest(code)' = Latest(code)
    BY <1>3 DEF GivenCode, Latest
  <2>2. ASSUME NEW t \in Sessions, joinCode'[t] # NoJoinCode
        PROVE  /\ joinCode'[t].id < Cardinality(GivenCode(joinCode[t].code))
               /\ \A u \in GivenCode(joinCode[t].code) : joinCode'[u].id = joinCode'[t].id => u = t
               /\ ~joinCode'[t].released => t \in Latest(joinCode[t].code)
    BY <1>1, <1>3, <2>2 DEF CreationInv, CodesAreOrdered, GivenCode
  <2>3. \A t \in Sessions : joinCode'[t].code = joinCode[t].code
    BY <1>3
  <2>4. QED
    BY <2>1, <2>2, <2>3 DEF CodesAreOrdered
<1>11. OpenLobbiesWithinLimit'
  BY <1>4, FewerLobbies
<1>12. QED
  BY <1>5, <1>6, <1>7, <1>8, <1>9, <1>10, <1>11 DEF CreationInv

\* CommitCreation gives one Session its row.
LEMMA CommitRow ==
  ASSUME CreationInv, NEW c \in Calls, CommitCreation(c)
  PROVE  /\ row[call[c].session] = NoRow
         /\ row'[call[c].session].status = Lobby
         /\ row'[call[c].session].creator = call[c].user
         /\ row'[call[c].session] # NoRow
         /\ \A s \in Sessions \ {call[c].session} : row'[s] = row[s]
<1>1. call[c].session \in Sessions /\ c \in InFlight /\ c \in Placed
  BY CommitsWhole DEF CreationInv
<1>2. row[call[c].session] = NoRow
  BY <1>1 DEF CreationInv, CallsAreCurrent, Current
<1>3. /\ row'[call[c].session].status = Lobby
      /\ row'[call[c].session].creator = call[c].user
      /\ \A s \in Sessions \ {call[c].session} : row'[s] = row[s]
  BY <1>1 DEF CommitCreation, CreationInv, TypeOK
<1>4. QED
  BY <1>2, <1>3 DEF NoRow, Lobby, Absent

\* CommitCreation gives the Session its code and releases the code's holders.
LEMMA CommitCode ==
  ASSUME CreationInv, NEW c \in Calls, CommitCreation(c)
  PROVE  /\ joinCode[call[c].session] = NoJoinCode
         /\ joinCode'[call[c].session] # NoJoinCode
         /\ joinCode'[call[c].session].code = call[c].code
         /\ joinCode'[call[c].session].id = Cardinality(GivenCode(call[c].code))
         /\ ~joinCode'[call[c].session].released
<1>1. /\ call[c].session \in Sessions /\ call[c].code \in Codes
      /\ row[call[c].session] = NoRow
  BY CommitsWhole, CommitRow DEF CreationInv
<1>2. joinCode[call[c].session] = NoJoinCode
  BY <1>1 DEF CreationInv, SessionsAreWhole
<1>3. joinCode'[call[c].session] = [code |-> call[c].code, released |-> FALSE,
                                    id |-> Cardinality(GivenCode(call[c].code))]
  BY <1>1 DEF CommitCreation, GivenCode
<1>4. joinCode'[call[c].session].code # NoSession
  BY <1>1, <1>3, SessionCreationAssumption
<1>5. QED
  BY <1>2, <1>3, <1>4 DEF NoJoinCode

\* Of the join codes of other Sessions, a commit releases those that held its
\* code and leaves the others alone.
LEMMA CommitReleases ==
  ASSUME CreationInv, NEW c \in Calls, CommitCreation(c), NEW s \in Sessions, s # call[c].session
  PROVE  /\ joinCode'[s] # NoJoinCode <=> joinCode[s] # NoJoinCode
         /\ joinCode'[s].code = joinCode[s].code
         /\ joinCode'[s].id = joinCode[s].id
         /\ s \in Holders(call[c].code) => joinCode'[s].released
         /\ s \notin Holders(call[c].code) => joinCode'[s] = joinCode[s]
<1>1. call[c].frees = Holders(call[c].code)
  BY CommitsWhole DEF CreationInv, CallsAreCurrent, Current
<1>2. CASE s \in Holders(call[c].code)
  <2>1. joinCode[s] # NoJoinCode
    BY <1>2 DEF Holders, NoJoinCode
  <2>2. joinCode'[s] = [joinCode[s] EXCEPT !.released = TRUE]
    BY <1>1, <1>2 DEF CommitCreation
  <2>3. QED
    BY <1>2, <2>1, <2>2, Releasing DEF CreationInv
<1>3. CASE s \notin Holders(call[c].code)
  BY <1>1, <1>3 DEF CommitCreation
<1>4. QED
  BY <1>2, <1>3

\* The lobbies open after a creation committed.
LEMMA CommitLobbies ==
  ASSUME CreationInv, NEW c \in Calls, CommitCreation(c)
  PROVE  /\ OpenLobbies' \subseteq OpenLobbies \cup {call[c].session}
         /\ \A u \in Users : u # call[c].user => OpenLobbiesOf(u)' \subseteq OpenLobbiesOf(u)
         /\ OpenLobbiesWithinLimit'
<1> DEFINE k == call[c]
<1>1. k.session \in Sessions /\ k \in Call /\ c \in InFlight /\ c \in Placed /\ c \in Counted
  BY CommitsWhole DEF CreationInv
<1>2. row'[k.session].creator = k.user /\ \A s \in Sessions \ {k.session} : row'[s] = row[s]
  BY CommitRow
<1>3. OpenLobbies' \subseteq OpenLobbies \cup {k.session}
  BY <1>2 DEF OpenLobbies, CommitCreation
<1>4. \A u \in Users : u # k.user => OpenLobbiesOf(u)' \subseteq OpenLobbiesOf(u)
  BY <1>2, <1>3 DEF OpenLobbiesOf, OpenLobbies
<1>5. ASSUME NEW u \in Users
      PROVE  Cardinality(OpenLobbiesOf(u)') <= MaxActive
  <2>1. OpenLobbiesOf(u)' \subseteq Sessions /\ OpenLobbiesOf(u) \subseteq Sessions
    BY DEF OpenLobbiesOf, OpenLobbies
  <2>2. CASE u # k.user
    <3>1. Cardinality(OpenLobbiesOf(u)') <= Cardinality(OpenLobbiesOf(u))
      BY <1>4, <2>1, <2>2, CountsAreNat, FS_Subset
    <3>2. Cardinality(OpenLobbiesOf(u)) <= MaxActive
      BY DEF CreationInv, OpenLobbiesWithinLimit, OpenLobbiesOf
    <3>3. QED
      BY <2>1, <3>1, <3>2, CountsAreNat, SessionCreationAssumption
  <2>3. CASE u = k.user
    <3> DEFINE grown == OpenLobbiesOf(u) \cup {k.session}
    <3>1. OpenLobbiesOf(u)' \subseteq grown
      BY <1>2, <1>3, <2>3 DEF OpenLobbiesOf, OpenLobbies
    <3>2. IsFiniteSet(grown) /\ Cardinality(grown) <= Cardinality(OpenLobbiesOf(u)) + 1
      BY <2>1, CountsAreNat, FS_AddElement
    <3>3. Cardinality(OpenLobbiesOf(u)') <= Cardinality(grown)
      BY <3>1, <3>2, FS_Subset
    <3>4. Cardinality(OpenLobbiesOf(u)) <= k.active /\ k.active < MaxActive /\ k.active \in Nat
      BY <1>1, <2>3 DEF CreationInv, CallsAreCurrent, Current, Call
    <3>5. /\ Cardinality(OpenLobbiesOf(u)) \in Nat /\ Cardinality(OpenLobbiesOf(u)') \in Nat
          /\ Cardinality(grown) \in Nat
      BY <2>1, <3>2, CountsAreNat, FS_CardinalityType
    <3>6. QED
      BY <3>2, <3>3, <3>4, <3>5, SessionCreationAssumption
  <2>4. QED
    BY <2>2, <2>3
<1>6. OpenLobbiesWithinLimit'
  BY <1>5 DEF OpenLobbiesWithinLimit, OpenLobbiesOf
<1>7. QED
  BY <1>3, <1>4, <1>6 DEF OpenLobbiesOf

\* The new assignment of a code is its last, and the only one not released.
LEMMA CommitCodes ==
  ASSUME CreationInv, TypeOK', NEW c \in Calls, CommitCreation(c)
  PROVE  CodesAreOrdered'
<1>1. PICK new \in Sessions, code \in Codes : new = call[c].session /\ code = call[c].code
  BY CommitsWhole DEF CreationInv
<1> DEFINE given == GivenCode(code)
<1>2. /\ joinCode[new].code = NoSession /\ NoSession \notin Codes
      /\ joinCode'[new].code = code /\ joinCode'[new].id = Cardinality(given)
      /\ ~joinCode'[new].released
  BY <1>1, CommitCode, SessionCreationAssumption DEF NoJoinCode
<1>3. \A t \in Sessions \ {new} : joinCode'[t].code = joinCode[t].code /\ joinCode'[t].id = joinCode[t].id
  BY <1>1, CommitReleases
<1>4. new \notin given /\ given \subseteq Sessions /\ given' = given \cup {new}
  BY <1>2, <1>3 DEF GivenCode
<1>5. \A other \in Codes : other # code => GivenCode(other)' = GivenCode(other)
  BY <1>2, <1>3 DEF GivenCode
<1>6. Cardinality(given) \in Nat /\ Cardinality(given \cup {new}) = Cardinality(given) + 1
  BY <1>4, CountsAreNat, FS_AddElement
<1>7. ASSUME NEW t \in given
      PROVE  /\ t # new /\ joinCode[t] # NoJoinCode
             /\ joinCode'[t].id = joinCode[t].id /\ joinCode[t].id \in Nat
             /\ joinCode[t].id < Cardinality(given)
             /\ joinCode'[t].released
  <2>1. t # new /\ t \in Sessions /\ joinCode[t].code = code
    BY <1>4 DEF GivenCode
  <2>2. joinCode[t] # NoJoinCode
    BY <1>2, <2>1 DEF NoJoinCode
  <2>3. t \notin Holders(code) => joinCode[t].released
    BY <2>1 DEF Holders
  <2>4. joinCode[t].id \in Nat /\ joinCode[t].id < Cardinality(given)
    BY <2>1, <2>2, Records DEF CreationInv, CodesAreOrdered, JoinCode
  <2>5. QED
    BY <1>1, <2>1, <2>2, <2>3, <2>4, CommitReleases
<1>8. ASSUME NEW t \in Sessions, NEW x \in Codes, joinCode'[t] # NoJoinCode, joinCode'[t].code = x
      PROVE  /\ joinCode'[t].id < Cardinality(GivenCode(x)')
             /\ \A u \in GivenCode(x)' : joinCode'[u].id = joinCode'[t].id => u = t
             /\ ~joinCode'[t].released => t \in Latest(x)'
  <2>1. CASE t = new
    <3>1. x = code /\ GivenCode(x)' = given \cup {new}
      BY <1>2, <1>4, <1>8, <2>1
    <3>2. \A u \in given : joinCode'[u].id < joinCode'[t].id /\ joinCode'[u].id # joinCode'[t].id
      BY <1>2, <1>6, <1>7, <2>1
    <3>3. t \in Latest(x)'
      BY <1>2, <1>4, <1>6, <1>7, <2>1, <3>1, <3>2 DEF Latest, GivenCode
    <3>4. joinCode'[t].id < Cardinality(GivenCode(x)')
      BY <1>2, <1>6, <2>1, <3>1
    <3>5. \A u \in GivenCode(x)' : joinCode'[u].id = joinCode'[t].id => u = t
      BY <2>1, <3>1, <3>2
    <3>6. QED
      BY <3>3, <3>4, <3>5
  <2>2. CASE t # new /\ x = code
    <3>1. t \in given
      BY <1>3, <1>8, <2>2 DEF GivenCode
    <3>2. \A u \in given : joinCode[u].id = joinCode[t].id => u = t
      BY <1>7, <2>2, <3>1, <1>8, <1>3 DEF CreationInv, CodesAreOrdered
    <3>3. GivenCode(x)' = given \cup {new} /\ joinCode'[t].id < Cardinality(given)
      BY <1>4, <1>7, <2>2, <3>1
    <3>4. joinCode'[t].id < Cardinality(GivenCode(x)') /\ joinCode'[t].id # joinCode'[new].id
      BY <1>2, <1>6, <1>7, <3>1, <3>3
    <3>5. \A u \in GivenCode(x)' : joinCode'[u].id = joinCode'[t].id => u = t
      BY <1>7, <3>1, <3>2, <3>3, <3>4
    <3>6. QED
      BY <1>7, <3>1, <3>4, <3>5
  <2>3. CASE t # new /\ x # code
    <3>1. /\ joinCode[t] # NoJoinCode /\ joinCode[t].code = x /\ joinCode'[t].id = joinCode[t].id
          /\ ~joinCode'[t].released => ~joinCode[t].released
      BY <1>1, <1>8, <2>3, CommitReleases
    <3>2. GivenCode(x)' = GivenCode(x) /\ new \notin GivenCode(x) /\ GivenCode(x) \subseteq Sessions
      BY <1>2, <1>5, <2>3 DEF GivenCode
    <3>3. /\ joinCode[t].id < Cardinality(GivenCode(x))
          /\ \A u \in GivenCode(x) : joinCode[u].id = joinCode[t].id => u = t
          /\ ~joinCode[t].released => t \in Latest(x)
      BY <3>1 DEF CreationInv, CodesAreOrdered
    <3>4. t \in Latest(x) => t \in Latest(x)'
      BY <1>2, <1>3, <2>3, <3>1 DEF Latest
    <3>5. QED
      BY <1>3, <3>1, <3>2, <3>3, <3>4
  <2>4. QED
    BY <2>1, <2>2, <2>3
<1>9. \A t \in Sessions : joinCode'[t] # NoJoinCode => joinCode'[t].code \in Codes
  BY DEF TypeOK, JoinCode
<1>10. QED
  BY <1>8, <1>9 DEF CodesAreOrdered

\* CommitCreation keeps the invariant.
LEMMA CommitStep ==
  ASSUME CreationInv, TypeOK', NEW c \in Calls, CommitCreation(c)
  PROVE  CreationInv'
<1>1. PICK k : k = call[c]
  OBVIOUS
<1>2. PICK new : new = k.session
  OBVIOUS
<1>3. PICK uk : uk = <<k.user, k.key>>
  OBVIOUS
<1>4. /\ c \in InFlight /\ c \in Counted /\ c \in Placed /\ c \in Coded
      /\ k \in Call /\ new \in Sessions /\ k.code \in Codes /\ uk \in Users \X Keys
      /\ k.frees = Holders(k.code) /\ now \in Nat /\ k.at \in Nat /\ k.at <= now
      /\ \A s \in k.frees : row[s].lobbyExpires <= k.at
  BY <1>1, <1>2, <1>3, CommitsWhole DEF CreationInv, CallsAreCurrent, Current, Call, TypeOK
<1>5. /\ row[new] = NoRow /\ row'[new] # NoRow /\ row'[new].creator = k.user
      /\ row'[new].status = Lobby /\ \A s \in Sessions \ {new} : row'[s] = row[s]
  BY <1>1, <1>2, CommitRow
<1>6. /\ joinCode[new] = NoJoinCode /\ joinCode'[new] # NoJoinCode
      /\ joinCode'[new].code = k.code /\ ~joinCode'[new].released
  BY <1>1, <1>2, CommitCode
<1>7. \A s \in Sessions \ {new} :
         /\ joinCode'[s] # NoJoinCode <=> joinCode[s] # NoJoinCode
         /\ joinCode'[s].code = joinCode[s].code
         /\ s \notin k.frees => joinCode'[s] = joinCode[s]
  BY <1>1, <1>2, <1>4, CommitReleases
<1>8. /\ requests[uk] = NoRequest
      /\ requests'[uk] = [game |-> k.game, outcome |-> "created", session |-> new]
      /\ requests'[uk] # NoRequest
      /\ \A other \in (Users \X Keys) \ {uk} : requests'[other] = requests[other]
  BY <1>1, <1>2, <1>3, <1>4 DEF CommitCreation, CreationInv, CallsAreCurrent, Current, TypeOK, NoRequest
<1>9. CallsAreApart'
  BY <1>4, CallEnds DEF CommitCreation
<1>10. CallsAreCurrent'
  <2>1. ASSUME NEW d \in InFlight'
        PROVE  Current(d)'
    <3>1. d \in InFlight /\ d # c /\ call'[d] = call[d]
      BY <1>4, CallEnds DEF CommitCreation
    <3>2. Apart(c, d) /\ Current(d) /\ call[d] \in Call
      BY <1>4, <3>1, Records DEF CreationInv, CallsAreApart, CallsAreCurrent
    <3>3. <<call[d].user, call[d].key>> # uk /\ <<call[d].user, call[d].key>> \in Users \X Keys
      BY <1>1, <1>3, <3>2 DEF Apart, Call
    <3>4. d \in Counted => OpenLobbiesOf(call[d].user)' \subseteq OpenLobbiesOf(call[d].user)
      <4>1. PICK u \in Users : u = call[d].user
        BY <3>2 DEF Call
      <4>2. d \in Counted => u # call[c].user
        BY <1>4, <3>2, <4>1 DEF Apart
      <4>3. d \in Counted => OpenLobbiesOf(u)' \subseteq OpenLobbiesOf(u)
        BY <4>2, CommitLobbies
      <4>4. QED
        BY <3>1, <4>1, <4>3
    <3>5. d \in Placed => row'[call[d].session] = row[call[d].session]
      BY <1>1, <1>2, <1>4, <1>5, <3>2 DEF Apart, Current
    <3>6. d \in Coded => /\ Holders(call[d].code)' = Holders(call[d].code)
                        /\ \A s \in call[d].frees : row'[s].lobbyExpires = row[s].lobbyExpires
      <4>1. PICK x : x = call[d].code
        OBVIOUS
      <4>2. d \in Coded => x # k.code /\ x \in Codes /\ call[d].frees = Holders(x)
        BY <1>1, <1>4, <3>2, <4>1 DEF Apart, Current
      <4>3. joinCode[new].code \notin Codes
        BY <1>6, SessionCreationAssumption DEF NoJoinCode
      <4>4. \A s \in Sessions : s \in k.frees => joinCode[s].code = k.code
        BY <1>4 DEF Holders
      <4>5. d \in Coded => Holders(x)' = Holders(x)
        BY <1>6, <1>7, <4>2, <4>3, <4>4 DEF Holders
      <4>6. d \in Coded => \A s \in Holders(x) : row'[s] = row[s]
        BY <1>5, <4>2, <4>3 DEF Holders
      <4>7. QED
        BY <3>1, <4>1, <4>2, <4>5, <4>6
    <3>7. QED
      BY <1>4, <1>8, <3>1, <3>3, <3>4, <3>5, <3>6, KeptCurrent DEF CommitCreation
  <2>2. QED
    BY <2>1 DEF CallsAreCurrent
<1>11. SessionsAreWhole'
  <2>1. ASSUME NEW s \in Sessions, row'[s] # NoRow
        PROVE  \E key \in Keys : /\ requests'[<<row'[s].creator, key>>] # NoRequest
                                 /\ requests'[<<row'[s].creator, key>>].session = s
    <3>1. CASE s = new
      BY <1>3, <1>4, <1>5, <1>8, <3>1 DEF Call
    <3>2. CASE s # new
      <4>1. row[s].creator \in Users /\ row'[s] = row[s] /\ row[s] # NoRow
        BY <1>5, <2>1, <3>2, Records DEF CreationInv, Row
      <4>2. QED
        BY <1>8, <4>1 DEF CreationInv, SessionsAreWhole
    <3>3. QED
      BY <3>1, <3>2
  <2>2. \A s \in Sessions : starting'[s] # NoStart => row'[s].status = Lobby
    BY <1>5 DEF CommitCreation, CreationInv, SessionsAreWhole
  <2>3. ASSUME NEW s \in OpenLobbies'
        PROVE  ~joinCode'[s].released
    <3>1. s \in Sessions /\ now < row'[s].lobbyExpires
      BY DEF OpenLobbies, CommitCreation
    <3>2. CASE s = new
      BY <1>6, <3>2
    <3>3. CASE s # new
      <4>1. s \in OpenLobbies /\ ~joinCode[s].released /\ row'[s] = row[s]
        BY <1>5, <3>1, <3>3 DEF OpenLobbies, CommitCreation, CreationInv, SessionsAreWhole
      <4>2. row[s].lobbyExpires \in Nat
        BY <3>1 DEF CreationInv, TypeOK, Row, NoRow
      <4>3. s \notin k.frees
        BY <1>4, <3>1, <4>1, <4>2
      <4>4. QED
        BY <1>7, <3>1, <3>3, <4>1, <4>3
    <3>4. QED
      BY <3>2, <3>3
  <2>4. \A s \in Sessions : row'[s] = NoRow <=> joinCode'[s] = NoJoinCode
    BY <1>5, <1>6, <1>7 DEF CreationInv, SessionsAreWhole
  <2>5. QED
    BY <2>1, <2>2, <2>3, <2>4 DEF SessionsAreWhole
<1>12. RequestsAreApart'
  <2>1. NoSession \notin Sessions
    BY SessionCreationAssumption
  <2>2. \A other \in Users \X Keys : requests[other] # NoRequest => requests[other].session # new
    BY <1>4, <1>5, <2>1 DEF CreationInv, RequestsAreApart
  <2>3. QED
    BY <1>4, <1>5, <1>8, <2>1, <2>2 DEF CreationInv, RequestsAreApart
<1>13. AnswersAreKept'
  <2>1. ASSUME NEW a \in answers
        PROVE  Kept(a)'
    <3>1. Kept(a) /\ <<a.user, a.key>> \in Users \X Keys
      BY DEF CreationInv, AnswersAreKept, TypeOK, Answer
    <3>2. <<a.user, a.key>> # uk
      BY <1>8, <3>1 DEF Kept
    <3>3. a.outcome = "created" => a.session \in Sessions \ {new}
      BY <1>5, <3>1 DEF CreationInv, RequestsAreApart, Kept
    <3>4. QED
      BY <1>7, <1>8, <3>1, <3>2, <3>3 DEF Kept
  <2>2. PICK a : a = [user |-> k.user, key |-> k.key, outcome |-> "created",
                      session |-> new, code |-> k.code]
    OBVIOUS
  <2>3. answers' = answers \cup {a}
    BY <1>1, <1>2, <2>2 DEF CommitCreation, Answered
  <2>4. Kept(a)'
    BY <1>3, <1>6, <1>8, <2>2 DEF Kept
  <2>5. QED
    BY <2>1, <2>3, <2>4 DEF AnswersAreKept
<1>14. CodesAreOrdered' /\ OpenLobbiesWithinLimit'
  BY CommitCodes, CommitLobbies
<1>15. QED
  BY <1>9, <1>10, <1>11, <1>12, <1>13, <1>14 DEF CreationInv

-----------------------------------------------------------------------------
(* The theorems. *)

\* Nothing exists yet.
LEMMA CreationInit ==
  ASSUME Init
  PROVE  CreationInv
<1>1. TypeOK
  BY DEF Init, TypeOK
<1>2. InFlight = {} /\ OpenLobbies = {}
  BY DEF Init, InFlight, Idle, OpenLobbies, NoRow, Absent, Lobby
<1>3. CallsAreApart /\ CallsAreCurrent
  BY <1>2 DEF CallsAreApart, CallsAreCurrent
<1>4. SessionsAreWhole /\ RequestsAreApart /\ AnswersAreKept /\ CodesAreOrdered
  BY <1>2 DEF Init, SessionsAreWhole, RequestsAreApart, AnswersAreKept, CodesAreOrdered
<1>5. OpenLobbiesWithinLimit
  BY <1>2, FS_EmptySet, SessionCreationAssumption DEF OpenLobbiesWithinLimit
<1>6. QED
  BY <1>1, <1>3, <1>4, <1>5 DEF CreationInv

\* Every step keeps the invariant.
LEMMA CreationStep ==
  ASSUME CreationInv, [Next]_vars
  PROVE  CreationInv'
<1>1. TypeOK'
  BY TypeStep DEF CreationInv
<1>2. now \in Nat
  BY DEF CreationInv, TypeOK
<1>3. CASE Tick \/ (\E g \in Games : Publish(g)) \/ UNCHANGED vars
  BY <1>1, <1>2, <1>3, QuietStep DEF Tick, Publish, vars
<1>4. CASE \E u \in Users, k \in Keys, g \in Games : Replay(u, k, g)
  BY <1>1, <1>4, ReplayStep
<1>5. ASSUME NEW c \in Calls, CallStep(c)
      PROVE  CreationInv'
  <2>1. CASE RefuseOverLimit(c) \/ RefuseUnavailable(c)
    BY <1>1, <2>1, RefuseStep DEF RefuseOverLimit, RefuseUnavailable
  <2>2. QED
    BY <1>1, <1>5, <2>1, ClaimStep, CountStep, InsertStep, DrawStep, CommitStep, RollbackStep
       DEF CallStep
<1>6. ASSUME NEW s \in Sessions, SessionStep(s)
      PROVE  CreationInv'
  <2>1. CASE OpenStart(s)
    BY <1>1, <1>2, <2>1, QuietStep DEF OpenStart, CreationInv, TypeOK
  <2>2. CASE RollbackStart(s)
    BY <1>1, <1>2, <2>2, QuietStep DEF RollbackStart, CreationInv, TypeOK
  <2>3. CASE CommitStart(s)
    <3>1. row[s] # NoRow
      BY <2>3 DEF CommitStart, CreationInv, SessionsAreWhole, NoRow, Lobby, Absent
    <3>2. QED
      BY <1>1, <2>3, <3>1, SettleStep DEF CommitStart
  <2>4. CASE EndSession(s)
    <3>1. row[s] # NoRow
      BY <2>4 DEF EndSession, LiveStatus, NoRow, Lobby, Running, Absent
    <3>2. starting' = [starting EXCEPT ![s] = NoStart]
      BY <2>4 DEF EndSession, CreationInv, TypeOK
    <3>3. QED
      BY <1>1, <2>4, <3>1, <3>2, SettleStep DEF EndSession
  <2>5. QED
    BY <1>6, <2>1, <2>2, <2>3, <2>4 DEF SessionStep
<1>7. QED
  BY <1>3, <1>4, <1>5, <1>6 DEF Next

\* The invariant gives each request one answer and each Session one request.
LEMMA InvCreatesOnce ==
  ASSUME CreationInv
  PROVE  CreatedOnce
<1>1. OneAnswerPerRequest
  <2>1. ASSUME NEW a \in answers, NEW b \in answers, a.user = b.user, a.key = b.key
        PROVE  a = b
    <3>1. a \in Answer /\ b \in Answer /\ Kept(a) /\ Kept(b)
      BY DEF CreationInv, TypeOK, AnswersAreKept
    <3>2. a.outcome = b.outcome /\ a.session = b.session /\ a.code = b.code
      BY <2>1, <3>1 DEF Kept
    <3>3. QED
      BY <2>1, <3>1, <3>2 DEF Answer
  <2>2. QED
    BY <2>1 DEF OneAnswerPerRequest
<1>2. EverySessionWasAskedForOnce
  <2>1. ASSUME NEW s \in Sessions, row[s] # NoRow
        PROVE  \E k \in Keys :
                 /\ requests[<<row[s].creator, k>>] # NoRequest
                 /\ requests[<<row[s].creator, k>>].session = s
                 /\ \A other \in (Users \X Keys) \ {<<row[s].creator, k>>} :
                      requests[other] # NoRequest => requests[other].session # s
    <3>1. row[s].creator \in Users
      BY <2>1, Records DEF CreationInv, Row
    <3>2. PICK k \in Keys : /\ requests[<<row[s].creator, k>>] # NoRequest
                           /\ requests[<<row[s].creator, k>>].session = s
      BY <2>1 DEF CreationInv, SessionsAreWhole
    <3>3. QED
      BY <3>1, <3>2 DEF CreationInv, RequestsAreApart
  <2>2. QED
    BY <2>1 DEF EverySessionWasAskedForOnce
<1>3. QED
  BY <1>1, <1>2 DEF CreatedOnce

\* The invariant makes the last assignment of a code the one that is live.
LEMMA InvLeadsToLobbies ==
  ASSUME CreationInv
  PROVE  CodesLeadToTheirLobby
<1>1. ActiveCodesAreUnique
  BY DEF CreationInv, CodesAreOrdered, ActiveCodesAreUnique
<1>2. ASSUME NEW s \in OpenLobbies
      PROVE  ResolveJoinCode(joinCode[s].code) = {s}
  <2>1. s \in Sessions /\ joinCode[s] # NoJoinCode /\ ~joinCode[s].released
    BY DEF OpenLobbies, CreationInv, SessionsAreWhole, NoRow, Lobby, Absent
  <2>2. s \in Latest(joinCode[s].code)
    BY <2>1 DEF CreationInv, CodesAreOrdered
  <2>3. ASSUME NEW t \in Latest(joinCode[s].code)
        PROVE  t = s
    <3>1. /\ t \in GivenCode(joinCode[s].code) /\ t \in Sessions /\ joinCode[t] # NoJoinCode
          /\ joinCode[s].id <= joinCode[t].id /\ joinCode[t].id <= joinCode[s].id
      BY <2>1, <2>2, Records, SessionCreationAssumption
         DEF Latest, GivenCode, CreationInv, JoinCode, NoJoinCode
    <3>2. joinCode[s].id \in Nat /\ joinCode[t].id \in Nat
      BY <2>1, <3>1, Records DEF CreationInv, JoinCode
    <3>3. QED
      BY <2>1, <3>1, <3>2 DEF CreationInv, CodesAreOrdered
  <2>4. QED
    BY <2>1, <2>2, <2>3 DEF ResolveJoinCode, OpenLobbies
<1>3. QED
  BY <1>1, <1>2 DEF CodesLeadToTheirLobby, JoinableIsResolvable

\* The invariant holds in every state.
LEMMA CreationInvHolds == Spec => []CreationInv
<1>1. Init => CreationInv
  BY CreationInit
<1>2. CreationInv /\ [Next]_vars => CreationInv'
  BY CreationStep
<1>3. QED
  BY <1>1, <1>2, PTL DEF Spec

\* However CreateSession is retried, raced or rolled back, a request has one
\* answer and every Session is the answer to one request (CreateSession,
\* replay, completeRequest).
THEOREM SessionsAreCreatedOnce == Spec => []CreatedOnce
  BY CreationInvHolds, InvCreatesOnce, PTL

\* A code in use is nobody else's and resolves to its lobby, however codes are
\* drawn, released and reused (allocateJoinCode, ResolveJoinCode).
THEOREM CodesAlwaysLeadToTheirLobby == Spec => []CodesLeadToTheirLobby
  BY CreationInvHolds, InvLeadsToLobbies, PTL

\* Concurrent creations never open more lobbies for one creator than the limit
\* (LockCreator, CountActiveSessions).
THEOREM OpenLobbiesStayWithinLimit == Spec => []OpenLobbiesWithinLimit
<1>1. CreationInv => OpenLobbiesWithinLimit
  BY DEF CreationInv
<1>2. QED
  BY CreationInvHolds, <1>1, PTL
=============================================================================
