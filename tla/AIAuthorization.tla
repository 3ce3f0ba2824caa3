-------------------------- MODULE AIAuthorization --------------------------
(***************************************************************************)
(* AI applications' OAuth access to a User's games                         *)
(* (identity/usecases/aiauthorization): clients register, ask for          *)
(* authorization, Users decide, codes and refresh tokens are exchanged     *)
(* once, and presenting one a second time revokes its connection.          *)
(*                                                                         *)
(* A request stands for its request id, its one-time code and the          *)
(* connection the code opens, which are made once each.  Every operation   *)
(* is one transaction that locks the row its secret names (FOR UPDATE), so *)
(* each is one step.  An exchange whose client, redirect URI, verifier or  *)
(* resource is not the expected one is refused and writes nothing: only    *)
(* the others are steps.                                                   *)
(***************************************************************************)
EXTENDS Naturals, FiniteSets

CONSTANTS
  AIClients, AIRequests, AISecrets, AIUsers, NoAIRow, MaxAITime,
  RequestLifetime, AICodeLifetime, RefreshLifetime, AccessLifetime

AIRequest ==
  [client : AIClients, expires : Nat, decided : {"no", "approved", "denied"},
   user : AIUsers \cup {NoAIRow}, codeExpires : Nat, used : BOOLEAN]

AIConnection ==
  [user : AIUsers, client : AIClients,
   revoked : {"no", "code_reuse", "refresh_reuse", "client", "user"}]

AIRefreshToken == [connection : AIRequests, expires : Nat, used : BOOLEAN]

\* NoAIRow stands for a row that is not there.
ASSUME AIAuthorizationAssumption ==
  /\ {RequestLifetime, AICodeLifetime, RefreshLifetime, AccessLifetime, MaxAITime} \subseteq Nat
  /\ NoAIRow \notin AIRequest \cup AIConnection \cup AIRefreshToken

VARIABLES
  aiClients,     \* registered applications
  aiRequests,    \* Request -> NoAIRow, or its row
  aiConnections, \* Request -> NoAIRow, or the identity_ai_sessions row its code opened
  aiSecrets,     \* Refresh token -> NoAIRow, or its row
  aiAccess,      \* access tokens granted
  aiReused,      \* connections a used code or refresh token was presented for
  aiTime

aiVars == <<aiClients, aiRequests, aiConnections, aiSecrets, aiAccess, aiReused, aiTime>>

AIAccessToken == [connection : AIRequests, user : AIUsers, expires : Nat]

Connected(q) == aiConnections[q] # NoAIRow

Live(q) == Connected(q) /\ aiConnections[q].revoked = "no"

\* CheckRegistration and CheckScope accept it; what it holds beyond its name
\* is what later requests are compared with.
RegisterClient(client) ==
  /\ client \notin aiClients
  /\ aiClients' = aiClients \cup {client}
  /\ UNCHANGED <<aiRequests, aiConnections, aiSecrets, aiAccess, aiReused, aiTime>>

\* Where an authorization request goes: nowhere when its client or redirect
\* URI cannot be trusted, back with an error, or to its User.
AuthorizationOutcome(client, redirects, wellFormed) ==
  IF client \notin aiClients \/ ~ redirects THEN "untrusted"
  ELSE IF ~ wellFormed THEN "redirect_error" ELSE "started"

StartAuthorization(q, client, redirects, wellFormed) ==
  /\ aiRequests[q] = NoAIRow
  /\ AuthorizationOutcome(client, redirects, wellFormed) = "started"
  /\ aiRequests' = [aiRequests EXCEPT ![q] =
       [client |-> client, expires |-> aiTime + RequestLifetime, decided |-> "no",
        user |-> NoAIRow, codeExpires |-> 0, used |-> FALSE]]
  /\ UNCHANGED <<aiClients, aiConnections, aiSecrets, aiAccess, aiReused, aiTime>>

\* Waiting for a decision, as ReadAuthorization shows it.
Pending(q) ==
  /\ aiRequests[q] # NoAIRow
  /\ aiRequests[q].decided = "no" /\ aiTime < aiRequests[q].expires

DecideAuthorization(q, user, approve) ==
  /\ Pending(q)
  /\ aiRequests' = [aiRequests EXCEPT
       ![q].decided = IF approve THEN "approved" ELSE "denied", ![q].user = user,
       ![q].codeExpires = IF approve THEN aiTime + AICodeLifetime ELSE 0]
  /\ UNCHANGED <<aiClients, aiConnections, aiSecrets, aiAccess, aiReused, aiTime>>

-----------------------------------------------------------------------------
\* RevokeSession: once, for the reason that came first.
Revoked(q, why) ==
  [aiConnections EXCEPT ![q].revoked = IF @ = "no" THEN why ELSE @]

\* Mutant: the refusal of a reused secret is answered as an error of the transaction,
\* which rolls its revocation back.
RevokedAndRolledBack(q, why) == aiConnections

\* A reused secret's connection; the revocation commits before the refusal
\* is answered.
ReuseOf(q, why) == Revoked(q, why)

Granted(q, user) ==
  aiAccess \cup {[connection |-> q, user |-> user, expires |-> aiTime + AccessLifetime]}

NewRefreshToken(q) ==
  [connection |-> q, expires |-> aiTime + RefreshLifetime, used |-> FALSE]

CodeKnown(q) == aiRequests[q] # NoAIRow /\ aiRequests[q].decided = "approved"

ExchangeCode(q, s) ==
  /\ CodeKnown(q) /\ ~ aiRequests[q].used
  /\ aiTime < aiRequests[q].codeExpires
  /\ aiSecrets[s] = NoAIRow
  /\ aiRequests' = [aiRequests EXCEPT ![q].used = TRUE]
  /\ aiConnections' = [aiConnections EXCEPT ![q] =
       [user |-> aiRequests[q].user, client |-> aiRequests[q].client, revoked |-> "no"]]
  /\ aiSecrets' = [aiSecrets EXCEPT ![s] = NewRefreshToken(q)]
  /\ aiAccess' = Granted(q, aiRequests[q].user)
  /\ UNCHANGED <<aiClients, aiReused, aiTime>>

\* Seen before anything else about the code is looked at.
ExchangeUsedCode(q) ==
  /\ CodeKnown(q) /\ aiRequests[q].used
  /\ aiConnections' = ReuseOf(q, "code_reuse")
  /\ aiReused' = aiReused \cup {q}
  /\ UNCHANGED <<aiClients, aiRequests, aiSecrets, aiAccess, aiTime>>

\* A refresh token of a live connection.
Honoured(s) == aiSecrets[s] # NoAIRow /\ Live(aiSecrets[s].connection)

RefreshAI(s, next) ==
  /\ Honoured(s) /\ ~ aiSecrets[s].used
  /\ aiTime < aiSecrets[s].expires
  /\ aiSecrets[next] = NoAIRow
  /\ LET q == aiSecrets[s].connection
     IN /\ aiSecrets' = [aiSecrets EXCEPT ![s].used = TRUE, ![next] = NewRefreshToken(q)]
        /\ aiAccess' = Granted(q, aiConnections[q].user)
  /\ UNCHANGED <<aiClients, aiRequests, aiConnections, aiReused, aiTime>>

RefreshUsed(s) ==
  /\ Honoured(s) /\ aiSecrets[s].used
  /\ LET q == aiSecrets[s].connection
     IN aiConnections' = ReuseOf(q, "refresh_reuse") /\ aiReused' = aiReused \cup {q}
  /\ UNCHANGED <<aiClients, aiRequests, aiSecrets, aiAccess, aiTime>>

-----------------------------------------------------------------------------
Verifies(token) ==
  /\ aiTime < token.expires
  /\ Live(token.connection)
  /\ aiConnections[token.connection].user = token.user

\* By one of the connection's refresh tokens, whatever became of it, or an
\* access token that has not expired.
RevokeByClient(q) ==
  /\ Connected(q)
  /\ \/ \E s \in AISecrets : aiSecrets[s] # NoAIRow /\ aiSecrets[s].connection = q
     \/ \E token \in aiAccess : token.connection = q /\ aiTime < token.expires
  /\ aiConnections' = Revoked(q, "client")
  /\ UNCHANGED <<aiClients, aiRequests, aiSecrets, aiAccess, aiReused, aiTime>>

RevokeConnection(q, user) ==
  /\ Live(q) /\ aiConnections[q].user = user
  /\ aiConnections' = Revoked(q, "user")
  /\ UNCHANGED <<aiClients, aiRequests, aiSecrets, aiAccess, aiReused, aiTime>>

ListConnections(user) == {q \in AIRequests : Live(q) /\ aiConnections[q].user = user}

AITick ==
  /\ aiTime < MaxAITime
  /\ aiTime' = aiTime + 1
  /\ UNCHANGED <<aiClients, aiRequests, aiConnections, aiSecrets, aiAccess, aiReused>>

-----------------------------------------------------------------------------
AIInit ==
  /\ aiClients = {}
  /\ aiRequests = [q \in AIRequests |-> NoAIRow]
  /\ aiConnections = [q \in AIRequests |-> NoAIRow]
  /\ aiSecrets = [s \in AISecrets |-> NoAIRow]
  /\ aiAccess = {} /\ aiReused = {}
  /\ aiTime = 0

AINext ==
  \/ \E client \in AIClients : RegisterClient(client)
  \/ \E q \in AIRequests :
       \/ \E client \in AIClients, redirects, wellFormed \in BOOLEAN :
            StartAuthorization(q, client, redirects, wellFormed)
       \/ \E user \in AIUsers, approve \in BOOLEAN : DecideAuthorization(q, user, approve)
       \/ \E s \in AISecrets : ExchangeCode(q, s)
       \/ ExchangeUsedCode(q)
       \/ RevokeByClient(q)
       \/ \E user \in AIUsers : RevokeConnection(q, user)
  \/ \E s \in AISecrets :
       \/ \E next \in AISecrets : RefreshAI(s, next)
       \/ RefreshUsed(s)
  \/ AITick

AISpec == AIInit /\ [][AINext]_aiVars

-----------------------------------------------------------------------------
\* A connection one of whose secrets was presented a second time is revoked
\* and stays so: none of its access tokens verifies, none of its refresh
\* tokens is honoured, and its User no longer sees it (ExchangeToken: "A code
\* or refresh token used twice revokes the connection it belongs to").
ReuseRevokes ==
  \A q \in aiReused :
    /\ ~ Live(q)
    /\ \A token \in aiAccess : token.connection = q => ~ Verifies(token)
    /\ \A s \in AISecrets : Honoured(s) => aiSecrets[s].connection # q
    /\ \A user \in AIUsers : q \notin ListConnections(user)

\* A live connection has exactly one refresh token not yet used, and acts for
\* the User who approved its request: however requests are repeated, no two
\* holders can renew the same connection.
OneHolder ==
  \A q \in AIRequests : Live(q) =>
    /\ aiRequests[q].decided = "approved" /\ aiRequests[q].used
    /\ aiConnections[q].user = aiRequests[q].user
    /\ Cardinality({s \in AISecrets : /\ aiSecrets[s] # NoAIRow
                                      /\ aiSecrets[s].connection = q
                                      /\ ~ aiSecrets[s].used}) = 1

AITypeOK ==
  /\ aiClients \subseteq AIClients
  /\ \A q \in AIRequests :
       /\ aiRequests[q] = NoAIRow \/ aiRequests[q] \in AIRequest
       /\ aiConnections[q] = NoAIRow \/ aiConnections[q] \in AIConnection
  /\ \A s \in AISecrets : aiSecrets[s] = NoAIRow \/ aiSecrets[s] \in AIRefreshToken
  /\ aiAccess \subseteq AIAccessToken

\* What renewing an AI connection promises: one holder, and none once its
\* token was used twice.
ConnectionsHold == AITypeOK /\ ReuseRevokes /\ OneHolder
=============================================================================
