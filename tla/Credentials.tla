---------------------------- MODULE Credentials ----------------------------
(***************************************************************************)
(* Identity's Users and their sessions: a session is a chain of refresh    *)
(* token rows of which at most the last is active.  Creating guests        *)
(* (identity/usecases/createguest), renewing credentials                   *)
(* (refreshcredentials) and signing out (endsession).                      *)
(*                                                                         *)
(* A refresh token is the row that keeps it, and a session is named by the *)
(* token that opened it.  The database runs READ COMMITTED: a statement    *)
(* sees what was committed when it began, waits for the rows it wants that *)
(* another transaction holds, and looks at them again once it has them.    *)
(* `calls' holds the requests in progress, each with what its transaction  *)
(* holds and has not committed.                                            *)
(***************************************************************************)
EXTENDS Naturals, FiniteSets

CONSTANTS
  Users, Tokens, Keys, Names,
  Calls,             \* requests being served at once
  NoUser, NoToken, NoRow, Nobody,
  Never,             \* larger than any time
  MaxTime,
  RotationAge, PreviousGrace, AccountInactivity, AccountMaxLifetime, ReplayWindow

ASSUME TimesAssumption ==
  /\ {MaxTime, Never, RotationAge, PreviousGrace, AccountInactivity,
      AccountMaxLifetime, ReplayWindow} \subseteq Nat
  /\ Never > MaxTime + AccountInactivity + AccountMaxLifetime

Time == 0..MaxTime

User == {Nobody, "guest", "account"}

SessionRow ==
  [session : Tokens, user : Users, issued : Time, started : Time,
   expires : Nat, ended : Time \cup {Never}, replacedBy : Tokens \cup {NoToken}]

GuestRequest == [name : Names, user : Users, session : Tokens, at : Time]

\* A User is no token, and what stands for nothing is nothing else.
ASSUME CredentialsAssumption ==
  /\ Users \cap Tokens = {} /\ NoUser \notin Users /\ NoToken \notin Tokens \cup Users
  /\ Nobody \notin {"guest", "account"}
  /\ NoRow \notin SessionRow \cup GuestRequest

VARIABLES
  users,        \* User -> Nobody, or whether they are a guest or an account
  rows,         \* Token -> NoRow, or its identity_sessions row
  guestKeys,    \* Key -> NoRow, or the guest request that claimed it
  calls,        \* Call -> the request it serves
  answered,     \* sessions somebody was answered about that they ended
  now

Free == [op |-> "free"]

Rows == {t \in Tokens : rows[t] # NoRow}

Active(t) == t \in Rows /\ rows[t].ended = Never

\* Tokens and Users no transaction has used or is about to use.
UnusedTokens ==
  {t \in Tokens \ Rows : \A c \in Calls : calls[c].op # "free" => calls[c].token # t}

UnusedUsers ==
  {u \in Users : users[u] = Nobody /\ \A c \in Calls : calls[c].op # "free" => calls[c].user # u}

\* Rows another transaction than c's holds locked.
HeldByOthers(c) ==
  UNION {calls[d].holds : d \in {e \in Calls \ {c} : calls[e].op # "free"}}

ExpiresAt(level, issued, started) ==
  IF level # "account"
  THEN Never
  ELSE IF started + AccountMaxLifetime < issued + AccountInactivity
       THEN started + AccountMaxLifetime
       ELSE issued + AccountInactivity

Expired(t, at) == at >= rows[t].expires

ShouldRotate(t, at) == at > rows[t].issued + RotationAge

WithinPreviousGrace(t, at) == at < rows[t].ended + PreviousGrace

NewRow(session, user, issued, started, expires) ==
  [session |-> session, user |-> user, issued |-> issued, started |-> started,
   expires |-> expires, ended |-> Never, replacedBy |-> NoToken]

-----------------------------------------------------------------------------
(***************************************************************************)
(* Creating a guest: the key is claimed, the User and its never expiring   *)
(* session created, in one transaction; a second claim of the key waits    *)
(* for the first and is answered with its guest, or that the key is spent. *)
(***************************************************************************)
CreateGuest(k, name, u, t) ==
  /\ guestKeys[k] = NoRow
  /\ u \in UnusedUsers /\ t \in UnusedTokens
  /\ guestKeys' = [guestKeys EXCEPT ![k] = [name |-> name, user |-> u, session |-> t, at |-> now]]
  /\ users' = [users EXCEPT ![u] = "guest"]
  /\ rows' = [rows EXCEPT ![t] = NewRow(t, u, now, now, Never)]
  /\ UNCHANGED <<calls, answered, now>>

\* What a repeated creation is answered: the guest's active token, or none.
ReplayGuest(k, name, at) ==
  LET request == guestKeys[k]
      active  == {t \in Rows : rows[t].session = request.session /\ Active(t)}
  IN IF request.name # name THEN "conflict"
     ELSE IF at >= request.at + ReplayWindow \/ active = {} THEN "spent"
     ELSE "replayed"

-----------------------------------------------------------------------------
(***************************************************************************)
(* Renewing.  The transaction decides under the presented row's lock; a    *)
(* rotation holds it until it commits the successor.  The User's level is  *)
(* read by the same statement and not again when it had to wait.           *)
(***************************************************************************)
BeginRefresh(c, t) ==
  /\ calls[c].op = "free"
  /\ t \in Rows
  /\ calls' = [calls EXCEPT ![c] =
       [op |-> "refresh", presented |-> t, at |-> now, level |-> users[rows[t].user],
        token |-> NoToken, user |-> NoUser, holds |-> {}]]
  /\ UNCHANGED <<users, rows, guestKeys, answered, now>>

\* Mutant: a read that does not lock the row.
CanLockWithoutWaiting(c, t) == TRUE

\* lockSession waits for whoever holds the row.
CanLock(c, t) == t \notin HeldByOthers(c)

\* What renewing the presented row comes to.
Renewal(t, at) ==
  IF Active(t)
  THEN IF Expired(t, at) THEN "invalid"
       ELSE IF ShouldRotate(t, at) THEN "rotated" ELSE "renewed"
  ELSE LET next == rows[t].replacedBy
       IN IF \/ next = NoToken
             \/ ~ WithinPreviousGrace(t, at)
             \/ ~ Active(next)
             \/ Expired(next, at)
          THEN "invalid" ELSE "previous"

\* Renewed with the same token, with the one that replaced it, or refused:
\* nothing is written.
AnswerRefresh(c) ==
  /\ calls[c].op = "refresh" /\ calls[c].holds = {}
  /\ LET t == calls[c].presented
     IN /\ CanLock(c, t)
        /\ rows[t].replacedBy # NoToken => CanLock(c, rows[t].replacedBy)
        /\ Renewal(t, calls[c].at) # "rotated"
  /\ calls' = [calls EXCEPT ![c] = Free]
  /\ UNCHANGED <<users, rows, guestKeys, answered, now>>

DecideRotation(c, successor) ==
  /\ calls[c].op = "refresh" /\ calls[c].holds = {}
  /\ successor \in UnusedTokens
  /\ LET t == calls[c].presented
     IN /\ CanLock(c, t)
        /\ Renewal(t, calls[c].at) = "rotated"
        /\ calls' = [calls EXCEPT ![c].holds = {t}, ![c].token = successor]
  /\ UNCHANGED <<users, rows, guestKeys, answered, now>>

RotateSession(c) ==
  LET call == calls[c]
      old  == rows[call.presented]
  IN [rows EXCEPT
        ![call.presented].ended = call.at,
        ![call.presented].replacedBy = call.token,
        ![call.token] = NewRow(old.session, old.user, call.at, old.started,
                               ExpiresAt(call.level, call.at, old.started))]

CommitRotation(c) ==
  /\ calls[c].op = "refresh" /\ calls[c].holds # {}
  /\ rows' = RotateSession(c)
  /\ calls' = [calls EXCEPT ![c] = Free]
  /\ UNCHANGED <<users, guestKeys, answered, now>>

-----------------------------------------------------------------------------
(***************************************************************************)
(* Ending sessions: every active row the target covers is deactivated, and *)
(* again until a count finds none, because a rotation that commits while   *)
(* the update waits leaves a row the update never saw.  `seen' are the     *)
(* rows the running update found.  A sign-out's updates commit by          *)
(* themselves; a login's are kept by its transaction in `holds'.           *)
(***************************************************************************)
\* The active rows of a session, or of all the sessions of a User.
Covered(target) ==
  {t \in Rows : Active(t) /\ (rows[t].session = target \/ rows[t].user = target)}

Deactivated(set, at) ==
  [t \in Tokens |-> IF t \in set /\ Active(t) THEN [rows[t] EXCEPT !.ended = at] ELSE rows[t]]

BeginEndSession(c, t) ==
  /\ calls[c].op = "free"
  /\ t \in Rows
  /\ calls' = [calls EXCEPT ![c] =
       [op |-> "end", target |-> rows[t].session, at |-> now, step |-> "update", seen |-> {},
        token |-> NoToken, user |-> NoUser, holds |-> {}]]
  /\ UNCHANGED <<users, rows, guestKeys, answered, now>>

\* The rows of its target a transaction may still find active.
StillActive(c) == Covered(calls[c].target) \ calls[c].holds

IsEnding(c) == calls[c].op \in {"end", "link", "complete"}

BeginUpdate(c) ==
  /\ IsEnding(c) /\ calls[c].step = "update"
  /\ calls' = [calls EXCEPT ![c].seen = StillActive(c), ![c].step = "wait"]
  /\ UNCHANGED <<users, rows, guestKeys, answered, now>>

\* The update has all its rows: those still active are deactivated.
FinishUpdate(c) ==
  /\ IsEnding(c) /\ calls[c].step = "wait"
  /\ calls[c].seen \cap HeldByOthers(c) = {}
  /\ LET ended == {t \in calls[c].seen : Active(t)}
     IN IF calls[c].op = "end"
        THEN /\ rows' = Deactivated(ended, calls[c].at)
             /\ calls' = [calls EXCEPT ![c].step = "count", ![c].seen = {}]
        ELSE /\ calls' = [calls EXCEPT ![c].step = "count", ![c].seen = {},
                                       ![c].holds = @ \cup ended]
             /\ UNCHANGED rows
  /\ UNCHANGED <<users, guestKeys, answered, now>>

\* Mutant: a single update, its count ignored.
AfterCountOnce(c) == "ended"

AfterCount(c) == IF StillActive(c) = {} THEN "ended" ELSE "update"

\* A sign-out is answered once nothing is left; a login goes on to commit.
CountActive(c) ==
  /\ IsEnding(c) /\ calls[c].step = "count"
  /\ IF calls[c].op = "end" /\ AfterCount(c) = "ended"
     THEN /\ answered' = answered \cup {calls[c].target}
          /\ calls' = [calls EXCEPT ![c] = Free]
     ELSE /\ calls' = [calls EXCEPT ![c].step = AfterCount(c)]
          /\ UNCHANGED answered
  /\ UNCHANGED <<users, rows, guestKeys, now>>

\* The request's connection to the database, or its instance, is lost: its
\* transaction rolls back and nobody is answered.
Dies(c) ==
  /\ calls[c].op # "free"
  /\ calls' = [calls EXCEPT ![c] = Free]
  /\ UNCHANGED <<users, rows, guestKeys, answered, now>>

Tick ==
  /\ now < MaxTime
  /\ now' = now + 1
  /\ UNCHANGED <<users, rows, guestKeys, calls, answered>>

-----------------------------------------------------------------------------
CredentialsInit ==
  /\ users = [u \in Users |-> Nobody]
  /\ rows = [t \in Tokens |-> NoRow]
  /\ guestKeys = [k \in Keys |-> NoRow]
  /\ calls = [c \in Calls |-> Free]
  /\ answered = {}
  /\ now = 0

CredentialsNext ==
  \/ \E k \in Keys, name \in Names, u \in Users, t \in Tokens : CreateGuest(k, name, u, t)
  \/ \E c \in Calls :
       \/ \E t \in Tokens : BeginRefresh(c, t) \/ DecideRotation(c, t) \/ BeginEndSession(c, t)
       \/ AnswerRefresh(c) \/ CommitRotation(c)
       \/ BeginUpdate(c) \/ FinishUpdate(c) \/ CountActive(c)
       \/ Dies(c)
  \/ Tick

=============================================================================
