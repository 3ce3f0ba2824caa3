---------------------------- MODULE AccountLogin ----------------------------
(***************************************************************************)
(* Signing in with an account (identity/workflows/accountlogin): a login   *)
(* attempt is started, answered once by its provider, resolved to the User *)
(* its proven identity is bound to (the guest who started it, or a new     *)
(* User, when it is bound to nobody), and completed once with its code.    *)
(* An attempt stands for its state and for its one-time code; whether a    *)
(* verifier matches is chosen by the caller.  The attempt's trail of       *)
(* events, which nothing reads back, is left out.                          *)
(***************************************************************************)
EXTENDS Credentials

CONSTANTS Attempts, Identities, AttemptLifetime, CodeLifetime

Attempt ==
  [guest : Users \cup {NoUser}, at : Time, answered : BOOLEAN, user : Users \cup {NoUser},
   expires : Nat, closed : BOOLEAN, opened : Tokens \cup {NoToken}]

ASSUME LifetimesAssumption ==
  /\ {AttemptLifetime, CodeLifetime} \subseteq Nat
  /\ NoRow \notin Attempt /\ Nobody \notin Identities

VARIABLES
  attempts,     \* Attempt -> NoRow, or its identity_login_attempts row
  bindings      \* Identity -> NoUser, or the User it is bound to

credentialVars == <<users, rows, guestKeys, answered, now>>
vars == <<users, rows, guestKeys, calls, answered, now, attempts, bindings>>

Started(a) == attempts[a] # NoRow

\* Starting, for a client that may be a guest (one that no longer is a guest,
\* but an account, too).
StartLogin(a, guest) ==
  /\ ~ Started(a)
  /\ guest # NoUser => users[guest] # Nobody
  /\ attempts' = [attempts EXCEPT ![a] =
       [guest |-> guest, at |-> now, answered |-> FALSE, user |-> NoUser, expires |-> 0,
        closed |-> FALSE, opened |-> NoToken]]
  /\ UNCHANGED <<credentialVars, calls, bindings>>

-----------------------------------------------------------------------------
\* AnswerAttempt: each attempt is answered once, while it lives, before the
\* provider is asked anything.
CanAnswer(a) == ~ attempts[a].answered /\ now < attempts[a].at + AttemptLifetime

\* Then the provider proves an identity, or nothing (Nobody): the person
\* cancelled, the answer is invalid, or the provider cannot be reached, and
\* the attempt ends there.
AnswerAttempt(c, a, identity) ==
  /\ calls[c].op = "free"
  /\ Started(a) /\ CanAnswer(a)
  /\ attempts' = [attempts EXCEPT ![a].answered = TRUE]
  /\ calls' = [calls EXCEPT ![c] =
       IF identity = Nobody THEN Free
       ELSE [op |-> "callback", attempt |-> a, at |-> now, identity |-> identity,
             token |-> NoToken, user |-> NoUser, holds |-> {}]]
  /\ UNCHANGED <<credentialVars, bindings>>

-----------------------------------------------------------------------------
(***************************************************************************)
(* The transaction that resolves the account and issues the code.  While   *)
(* it runs it owns the account row it made (`user', for a guest or a new   *)
(* User) and the binding it made: another transaction inserting the same   *)
(* waits for it.                                                           *)
(***************************************************************************)
Resolving(c) == calls[c].op = "callback"

Guest(c) == attempts[calls[c].attempt].guest

MakingAccount(u) == \E d \in Calls : calls[d].op \in {"create", "link"} /\ calls[d].user = u

Binding(i) == \E d \in Calls : calls[d].op = "link" /\ calls[d].identity = i

IssueCode(c, u) ==
  [attempts EXCEPT ![calls[c].attempt].user = u,
                   ![calls[c].attempt].expires = calls[c].at + CodeLifetime]

ResolveExisting(c) ==
  /\ Resolving(c)
  /\ bindings[calls[c].identity] # NoUser
  /\ attempts' = IssueCode(c, bindings[calls[c].identity])
  /\ calls' = [calls EXCEPT ![c] = Free]
  /\ UNCHANGED <<credentialVars, bindings>>

\* The User an identity bound to nobody is given: the guest who started the
\* login unless that is an account already, or a new one.
AccountToMake(c, u) ==
  LET guest == Guest(c)
      links == guest # NoUser /\ (guest # NoUser => users[guest] = "guest")
  IN IF links THEN u = guest ELSE u \in UnusedUsers

MakeAccount(c, u) ==
  /\ Resolving(c)
  /\ bindings[calls[c].identity] = NoUser
  /\ Guest(c) # NoUser => ~ MakingAccount(Guest(c))
  /\ AccountToMake(c, u)
  /\ calls' = [calls EXCEPT ![c] =
       [op |-> "create", attempt |-> calls[c].attempt, at |-> calls[c].at,
        identity |-> calls[c].identity, token |-> NoToken, user |-> u, holds |-> {}]]
  /\ UNCHANGED <<credentialVars, attempts, bindings>>

Linking(c, step) ==
  [op |-> "link", attempt |-> calls[c].attempt, at |-> calls[c].at,
   identity |-> calls[c].identity, target |-> calls[c].user, step |-> step, seen |-> {},
   token |-> NoToken, user |-> calls[c].user, holds |-> {}]

\* Mutant: the account is made and committed whoever bound the identity first.
BoundAnyway(c) == Linking(c, "ended")

\* bindIdentity: bound already, the transaction rolls back and starts again.
BoundMeanwhile(c) ==
  [calls[c] EXCEPT !.op = "callback", !.user = NoUser]

\* Mutant: the guest becomes an account and keeps their sessions.
BoundWithoutEnding(c) == Linking(c, "ended")

\* The binding is made; a linked guest's sessions are then ended.
Bound(c) == Linking(c, IF users[calls[c].user] = Nobody THEN "ended" ELSE "update")

BindIdentity(c) ==
  /\ calls[c].op = "create"
  /\ ~ Binding(calls[c].identity)
  /\ calls' = [calls EXCEPT ![c] =
       IF bindings[calls[c].identity] # NoUser THEN BoundMeanwhile(c) ELSE Bound(c)]
  /\ UNCHANGED <<credentialVars, attempts, bindings>>

SessionsOf(set) == {rows[t].session : t \in set}

CommitAccount(c) ==
  /\ calls[c].op = "link" /\ calls[c].step = "ended"
  /\ LET call == calls[c]
     IN /\ users' = [users EXCEPT ![call.user] = "account"]
        /\ bindings' = [bindings EXCEPT ![call.identity] = call.user]
        /\ rows' = Deactivated(call.holds, call.at)
        /\ answered' = answered \cup SessionsOf(call.holds)
        /\ attempts' = IssueCode(c, call.user)
        /\ calls' = [calls EXCEPT ![c] = Free]
  /\ UNCHANGED <<guestKeys, now>>

-----------------------------------------------------------------------------
(***************************************************************************)
(* Completing: the attempt is locked by its code until the transaction     *)
(* ends.  Every refusal of a known code uses it up.                        *)
(***************************************************************************)
AttemptHeld(a) == \E d \in Calls : calls[d].op = "complete" /\ calls[d].attempt = a

HasCode(a) == Started(a) /\ attempts[a].user # NoUser

\* Mutant: a code checked for its age and verifier only.
CompletableAgain(a, at, verifierMatches) == at < attempts[a].expires /\ verifierMatches

Completable(a, at, verifierMatches) ==
  ~ attempts[a].closed /\ at < attempts[a].expires /\ verifierMatches

RejectCode(c, a, verifierMatches) ==
  /\ calls[c].op = "free"
  /\ HasCode(a) /\ ~ AttemptHeld(a)
  /\ ~ Completable(a, now, verifierMatches)
  /\ attempts' = [attempts EXCEPT ![a].closed = TRUE]
  /\ UNCHANGED <<credentialVars, calls, bindings>>

\* The session this client held until now, NoToken for none or one unknown.
BeginCompletion(c, a, t, replaces) ==
  /\ calls[c].op = "free"
  /\ HasCode(a) /\ ~ AttemptHeld(a)
  /\ Completable(a, now, TRUE)
  /\ t \in UnusedTokens
  /\ replaces \in Rows \cup {NoToken}
  /\ calls' = [calls EXCEPT ![c] =
       [op |-> "complete", attempt |-> a, at |-> now,
        target |-> IF replaces = NoToken THEN NoToken ELSE rows[replaces].session,
        step |-> IF replaces = NoToken THEN "ended" ELSE "update", seen |-> {},
        token |-> t, user |-> attempts[a].user, holds |-> {}]]
  /\ UNCHANGED <<credentialVars, attempts, bindings>>

CommitCompletion(c) ==
  /\ calls[c].op = "complete" /\ calls[c].step = "ended"
  /\ LET call == calls[c]
         kept == Deactivated(call.holds, call.at)
     IN /\ rows' = [kept EXCEPT ![call.token] =
                     NewRow(call.token, call.user, call.at, call.at,
                            ExpiresAt("account", call.at, call.at))]
        /\ attempts' = [attempts EXCEPT ![call.attempt].closed = TRUE,
                                        ![call.attempt].opened = call.token]
        /\ answered' = answered \cup ({call.target} \ {NoToken})
        /\ calls' = [calls EXCEPT ![c] = Free]
  /\ UNCHANGED <<users, guestKeys, now, bindings>>

-----------------------------------------------------------------------------
Init ==
  /\ CredentialsInit
  /\ attempts = [a \in Attempts |-> NoRow]
  /\ bindings = [i \in Identities |-> NoUser]

LoginSteps(c) ==
  \/ \E a \in Attempts :
       \/ \E identity \in Identities \cup {Nobody} : AnswerAttempt(c, a, identity)
       \/ \E matches \in BOOLEAN : RejectCode(c, a, matches)
       \/ \E t \in Tokens, replaces \in Tokens \cup {NoToken} : BeginCompletion(c, a, t, replaces)
  \/ ResolveExisting(c)
  \/ \E u \in Users : MakeAccount(c, u)
  \/ BindIdentity(c) \/ CommitAccount(c) \/ CommitCompletion(c)

Next ==
  \/ CredentialsNext /\ UNCHANGED <<attempts, bindings>>
  \/ \E a \in Attempts, guest \in Users \cup {NoUser} : StartLogin(a, guest)
  \/ \E c \in Calls : LoginSteps(c)

Spec == Init /\ [][Next]_vars

-----------------------------------------------------------------------------
(***************************************************************************)
(* Properties.                                                             *)
(***************************************************************************)

\* Every row has its columns' types, and whoever waits for a lock waits for
\* rows that exist.
TypeOK ==
  /\ users \in [Users -> User]
  /\ \A t \in Rows : rows[t] \in SessionRow
  /\ \A k \in Keys : guestKeys[k] # NoRow => guestKeys[k] \in GuestRequest
  /\ \A a \in Attempts : Started(a) => attempts[a] \in Attempt
  /\ bindings \in [Identities -> Users \cup {NoUser}]
  /\ \A c \in Calls : calls[c].op # "free" => calls[c].holds \subseteq Rows
  /\ answered \subseteq Rows
  /\ now \in Time

\* A session's rows are one chain: a row has been replaced exactly when
\* another row of its session and User follows it, each row follows at most
\* one, and only the chain's last may be active (refreshInTx's comment: "two
\* renewals of the same token never rotate it twice").
SessionsAreChains ==
  /\ \A t \in Rows : rows[t].replacedBy # NoToken =>
       /\ ~ Active(t)
       /\ rows[t].replacedBy \in Rows
       /\ rows[rows[t].replacedBy].session = rows[t].session
       /\ rows[rows[t].replacedBy].user = rows[t].user
  /\ \A t, other \in Rows :
       rows[t].session = rows[other].session /\ t # other =>
         ~ (Active(t) /\ Active(other))

\* A session whose end somebody was answered has no active token and never
\* gets one again, whatever rotation was running when it ended.
EndedStaysEnded ==
  \A t \in Rows : rows[t].session \in answered => ~ Active(t)

\* A guest's session never expires and ends when the guest becomes an
\* account: no account keeps a token without an expiry, or one beyond the
\* most a session may last, and repeating a guest's creation never gives it
\* back (LinkAccount, "the end of their guest sessions (which never expire)").
AccountSessionsExpire ==
  /\ \A t \in Rows : Active(t) /\ users[rows[t].user] = "account" =>
       rows[t].expires <= rows[t].started + AccountMaxLifetime
  /\ \A k \in Keys, name \in Names :
       guestKeys[k] # NoRow /\ ReplayGuest(k, name, now) = "replayed" =>
         users[guestKeys[k].user] = "guest"

\* An account is the account of exactly one external identity, a guest of
\* none, and nobody is left who is neither a created guest nor an account:
\* a login that lost the race to bind its identity leaves no User behind.
AccountsAreBound ==
  /\ \A u \in Users :
       Cardinality({i \in Identities : bindings[i] = u}) = (IF users[u] = "account" THEN 1 ELSE 0)
  /\ \A u \in Users : users[u] = "guest" =>
       \E k \in Keys : guestKeys[k] # NoRow /\ guestKeys[k].user = u

\* Every session but a guest's first was opened by one login attempt, for the
\* account it resolved, and no attempt opened two: a code signs in once.
CodesSignInOnce ==
  \A t \in Rows : rows[t].session = t =>
    \/ \E k \in Keys : guestKeys[k] # NoRow /\ guestKeys[k].session = t
    \/ \E a \in Attempts : /\ Started(a) /\ attempts[a].opened = t
                           /\ attempts[a].closed /\ attempts[a].user = rows[t].user

\* What refreshInTx, endSession and Require rely on: a session is one chain of
\* tokens, and one that ended stays ended.
SessionsHold == SessionsAreChains /\ EndedStaysEnded

\* What completing a login promises: one account per identity, one session
\* per code, and no account session beyond its lifetimes.
LoginsHold == AccountsAreBound /\ AccountSessionsExpire /\ CodesSignInOnce
=============================================================================
