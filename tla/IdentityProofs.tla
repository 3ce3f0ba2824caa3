--------------------------- MODULE IdentityProofs ---------------------------
(***************************************************************************)
(* Identity for any Users, clients, tokens, requests, callers and          *)
(* lifetimes: sessions and account logins, AI applications' access,        *)
(* display names and resource links.                                       *)
(***************************************************************************)
EXTENDS Identity, FiniteSetTheorems, TLAPS

-----------------------------------------------------------------------------
(* The requests in progress, by what they do. *)

Steps == {"update", "wait", "count", "ended"}

RefreshCall ==
  [op : {"refresh"}, presented : Tokens, at : Time, level : User,
   token : Tokens \cup {NoToken}, user : {NoUser}, holds : SUBSET Tokens]

EndCall ==
  [op : {"end"}, target : Tokens, at : Time, step : Steps \ {"ended"}, seen : SUBSET Tokens,
   token : {NoToken}, user : {NoUser}, holds : {{}}]

CallbackCall ==
  [op : {"callback"}, attempt : Attempts, at : Time, identity : Identities,
   token : {NoToken}, user : {NoUser}, holds : {{}}]

CreateCall ==
  [op : {"create"}, attempt : Attempts, at : Time, identity : Identities,
   token : {NoToken}, user : Users, holds : {{}}]

LinkCall ==
  [op : {"link"}, attempt : Attempts, at : Time, identity : Identities, target : Users,
   step : Steps, seen : SUBSET Tokens, token : {NoToken}, user : Users, holds : SUBSET Tokens]

CompleteCall ==
  [op : {"complete"}, attempt : Attempts, at : Time, target : Tokens \cup {NoToken},
   step : Steps, seen : SUBSET Tokens, token : Tokens, user : Users, holds : SUBSET Tokens]

Serving ==
  RefreshCall \cup EndCall \cup CallbackCall \cup CreateCall \cup LinkCall \cup CompleteCall

-----------------------------------------------------------------------------
(* What two requests never share. *)

Makers == {"create", "link"}

Answering == {"callback", "create", "link"}

Apart(r, q) ==
  /\ r.holds \cap q.holds = {}
  /\ r.token # NoToken => r.token # q.token
  /\ r.op \in Makers /\ q.op \in Makers => r.user # q.user
  /\ r.op = "link" /\ q.op = "link" => r.identity # q.identity
  /\ r.op \in Answering /\ q.op \in Answering => r.attempt # q.attempt
  /\ r.op = "complete" /\ q.op = "complete" => r.attempt # q.attempt

CallsAreApart ==
  \A c, d \in Calls : c # d /\ calls[c] # Free /\ calls[d] # Free => Apart(calls[c], calls[d])

-----------------------------------------------------------------------------
(* What a request read and still holds. *)

\* The rows it locked are active, and the token it will write is new.
LocksHold(r) == (\A t \in r.holds : Active(t)) /\ r.token \notin Rows

\* A rotation holds the row it ends; a level read before its User became an
\* account is of a row that ended with it.
RefreshHolds(r) ==
  r.op = "refresh" =>
    /\ r.presented \in Rows
    /\ IF r.token = NoToken THEN r.holds = {} ELSE r.holds = {r.presented}
    /\ Active(r.presented) /\ users[rows[r.presented].user] = "account" => r.level = "account"

\* What ends a session targets one; what counted no active row left holds
\* every one there is.
EndHolds(r) ==
  /\ r.op \in {"end", "complete"} /\ r.target # NoToken => r.target \in Rows
  /\ r.op = "link" => r.target = r.user
  /\ r.op \in {"link", "complete"} /\ r.step = "ended" /\ r.target # NoToken =>
       Covered(r.target) \subseteq r.holds

\* The User becoming an account is none yet, the identity is nobody's yet.
MakerHolds(r) ==
  /\ r.op \in Makers => users[r.user] # "account"
  /\ r.op = "link" => bindings[r.identity] = NoUser

\* The answered attempt has no User yet; the one being completed has, is
\* open, and opened nothing.
AttemptHolds(r) ==
  /\ r.op \in Answering =>
       /\ Started(r.attempt) /\ attempts[r.attempt].answered
       /\ attempts[r.attempt].user = NoUser
  /\ r.op = "complete" =>
       /\ Started(r.attempt) /\ attempts[r.attempt].user = r.user
       /\ ~ attempts[r.attempt].closed

Holds(r) ==
  r \in Serving /\ LocksHold(r) /\ RefreshHolds(r) /\ EndHolds(r) /\ MakerHolds(r) /\ AttemptHolds(r)

CallsHold == \A c \in Calls : calls[c] # Free => Holds(calls[c])

-----------------------------------------------------------------------------
(* What the rows say of each other. *)

LoginTypes ==
  /\ users \in [Users -> User]
  /\ rows \in [Tokens -> SessionRow \cup {NoRow}]
  /\ guestKeys \in [Keys -> GuestRequest \cup {NoRow}]
  /\ DOMAIN calls = Calls
  /\ attempts \in [Attempts -> Attempt \cup {NoRow}]
  /\ bindings \in [Identities -> Users \cup {NoUser}]
  /\ answered \subseteq Rows
  /\ now \in Time

\* A row belongs to the session its first token names, of a User there is.
RowsBelong ==
  \A t \in Rows : LET first == rows[t].session
                  IN /\ first \in Rows /\ rows[first].session = first
                     /\ rows[first].user = rows[t].user
                     /\ users[rows[t].user] # Nobody

ReplacedHaveNext ==
  \A t \in Rows : LET next == rows[t].replacedBy
                  IN next # NoToken => /\ ~ Active(t) /\ next \in Rows
                                       /\ rows[next].session = rows[t].session

OneActive ==
  \A t, o \in Rows : Active(t) /\ Active(o) /\ rows[t].session = rows[o].session => t = o

\* An account's active rows expire, and none is of its guest's session.
AccountRows ==
  \A t \in Rows : Active(t) /\ users[rows[t].user] = "account" =>
    /\ rows[t].expires <= rows[t].started + AccountMaxLifetime
    /\ \A k \in Keys : guestKeys[k] # NoRow => guestKeys[k].session # rows[t].session

\* A guest's key keeps the session it opened, and every guest has a key.
GuestsHaveKeys ==
  /\ \A k \in Keys : guestKeys[k] # NoRow =>
       LET first == guestKeys[k].session
       IN first \in Rows /\ rows[first].session = first /\ rows[first].user = guestKeys[k].user
  /\ \A u \in Users : users[u] = "guest" =>
       \E k \in Keys : guestKeys[k] # NoRow /\ guestKeys[k].user = u

\* Accounts and bound identities are one to one.
IdentitiesAreBound ==
  /\ \A i, j \in Identities : bindings[i] = bindings[j] /\ bindings[i] # NoUser => i = j
  /\ \A u \in Users : users[u] = "account" <=> \E i \in Identities : bindings[i] = u

AttemptsAreKept ==
  \A a \in Attempts : Started(a) =>
    /\ attempts[a].user # NoUser => attempts[a].answered /\ users[attempts[a].user] = "account"
    /\ attempts[a].opened # NoToken => attempts[a].closed /\ attempts[a].user # NoUser

\* Inductive.
LoginInv ==
  /\ LoginTypes /\ RowsBelong /\ ReplacedHaveNext /\ OneActive /\ EndedStaysEnded
  /\ AccountRows /\ GuestsHaveKeys /\ IdentitiesAreBound /\ AttemptsAreKept /\ CodesSignInOnce
  /\ CallsHold /\ CallsAreApart

-----------------------------------------------------------------------------
(* Lemmas. *)

\* Requests are apart both ways.
LEMMA ApartBothWays ==
  ASSUME NEW r, NEW q, Apart(r, q)
  PROVE  Apart(q, r)
  BY DEF Apart

\* A request of each kind has the fields of its kind.
LEMMA ServingKinds ==
  ASSUME NEW r \in Serving
  PROVE  /\ r.op # "free" /\ r # Free
         /\ r.op = "refresh" => r \in RefreshCall
         /\ r.op = "end" => r \in EndCall
         /\ r.op = "callback" => r \in CallbackCall
         /\ r.op = "create" => r \in CreateCall
         /\ r.op = "link" => r \in LinkCall
         /\ r.op = "complete" => r \in CompleteCall
         /\ r.holds \subseteq Tokens /\ r.token \in Tokens \cup {NoToken} /\ r.at \in Time
         /\ r.user \in Users \cup {NoUser}
  BY DEF Serving, RefreshCall, EndCall, CallbackCall, CreateCall, LinkCall, CompleteCall, Free

\* What one request's step leaves of the others.
LEMMA CallsKept ==
  ASSUME LoginInv, NEW c \in Calls, NEW r, calls' = [calls EXCEPT ![c] = r],
         r # Free => /\ Holds(r)'
                     /\ \A d \in Calls \ {c} : calls[d] # Free => Apart(r, calls[d]),
         \A d \in Calls \ {c} : \A q : q = calls[d] /\ q # Free => Holds(q)'
  PROVE  CallsHold' /\ CallsAreApart' /\ DOMAIN calls' = Calls
<1>1. /\ DOMAIN calls = Calls
      /\ calls'[c] = r /\ \A d \in Calls \ {c} : calls'[d] = calls[d]
  BY DEF LoginInv, LoginTypes
<1>2. CallsHold'
  <2>1. ASSUME NEW d \in Calls, calls'[d] # Free
        PROVE  Holds(calls[d])'
    <3>1. PICK q : q = calls'[d]
      OBVIOUS
    <3>2. Holds(q)'
      BY <1>1, <2>1, <3>1
    <3>3. QED
      BY <3>1, <3>2
  <2>2. QED
    BY <2>1 DEF CallsHold
<1>3. CallsAreApart'
  BY <1>1, ApartBothWays DEF LoginInv, CallsAreApart
<1>4. QED
  BY <1>1, <1>2, <1>3

\* What holds of a request still does when nothing it names changed.
LEMMA HoldsKept ==
  ASSUME NEW q, Holds(q), UNCHANGED <<users, rows, attempts, bindings>>
  PROVE  Holds(q)'
  BY DEF Holds, LocksHold, RefreshHolds, EndHolds, MakerHolds, AttemptHolds, Covered, Active, Rows, Started

\* A step that only changes what a request holds.
LEMMA CallStep ==
  ASSUME LoginInv, NEW c \in Calls, NEW r, calls' = [calls EXCEPT ![c] = r],
         r # Free => /\ Holds(r)
                     /\ \A d \in Calls \ {c} : calls[d] # Free => Apart(r, calls[d]),
         UNCHANGED <<users, rows, guestKeys, answered, now, attempts, bindings>>
  PROVE  LoginInv'
<1>1. \A q : Holds(q) => Holds(q)'
  BY HoldsKept
<1>2. CallsHold' /\ CallsAreApart' /\ DOMAIN calls' = Calls
  BY <1>1, CallsKept DEF LoginInv, CallsHold
<1>3. LoginTypes' /\ RowsBelong' /\ ReplacedHaveNext' /\ OneActive' /\ EndedStaysEnded'
  BY <1>2 DEF LoginInv, LoginTypes, RowsBelong, ReplacedHaveNext, OneActive, EndedStaysEnded, Active, Rows
<1>4. AccountRows' /\ GuestsHaveKeys' /\ IdentitiesAreBound' /\ AttemptsAreKept' /\ CodesSignInOnce'
  BY DEF LoginInv, AccountRows, GuestsHaveKeys, IdentitiesAreBound, AttemptsAreKept,
         CodesSignInOnce, Active, Rows, Started
<1>5. QED
  BY <1>2, <1>3, <1>4 DEF LoginInv

\* A request in progress holds what it names; a free one serves nothing.
LEMMA RequestsHold ==
  ASSUME LoginInv, NEW c \in Calls
  PROVE  /\ calls[c].op = "free" <=> calls[c] = Free
         /\ calls[c] # Free => Holds(calls[c]) /\ calls[c] \in Serving
         /\ \A d \in Calls \ {c} : calls[c] # Free /\ calls[d] # Free => Apart(calls[c], calls[d])
<1>1. calls[c] # Free => Holds(calls[c]) /\ calls[c] \in Serving
  BY DEF LoginInv, CallsHold, Holds
<1>2. calls[c].op = "free" <=> calls[c] = Free
  BY <1>1, ServingKinds DEF Free
<1>3. QED
  BY <1>1, <1>2 DEF LoginInv, CallsAreApart

\* A row that is there is a record of its kind.
LEMMA LoginRows ==
  ASSUME LoginInv
  PROVE  /\ \A t \in Rows : rows[t] \in SessionRow
         /\ \A k \in Keys : guestKeys[k] # NoRow => guestKeys[k] \in GuestRequest
         /\ \A a \in Attempts : Started(a) => attempts[a] \in Attempt
         /\ \A row \in SessionRow \cup GuestRequest \cup Attempt : row # NoRow
  BY CredentialsAssumption, LifetimesAssumption DEF LoginInv, LoginTypes, Rows, Started

-----------------------------------------------------------------------------
(* Steps that write no row. *)

\* BeginRefresh, BeginEndSession: a request that locked nothing yet.
LEMMA RequestBegins ==
  ASSUME LoginInv, NEW c \in Calls, NEW t \in Tokens,
         BeginRefresh(c, t) \/ BeginEndSession(c, t), UNCHANGED <<attempts, bindings>>
  PROVE  LoginInv'
<1>1. t \in Rows /\ rows[t] \in SessionRow /\ rows[t].session \in Rows
  BY LoginRows DEF BeginRefresh, BeginEndSession, LoginInv, RowsBelong
<1>2. now \in Time /\ users[rows[t].user] \in User
  BY <1>1 DEF LoginInv, LoginTypes, SessionRow
<1>3. CASE BeginRefresh(c, t)
  <2> DEFINE r == [op |-> "refresh", presented |-> t, at |-> now, level |-> users[rows[t].user],
                   token |-> NoToken, user |-> NoUser, holds |-> {}]
  <2>1. r \in RefreshCall
    BY <1>1, <1>2 DEF RefreshCall, Rows
  <2>2. Holds(r)
    BY <1>1, <2>1, CredentialsAssumption
       DEF Holds, Serving, LocksHold, RefreshHolds, EndHolds, MakerHolds, AttemptHolds, Makers,
           Answering, Rows
  <2>3. \A d \in Calls \ {c} : calls[d] # Free => Apart(r, calls[d])
    BY DEF Apart, Makers, Answering
  <2> HIDE DEF r
  <2>4. calls' = [calls EXCEPT ![c] = r] /\ UNCHANGED <<users, rows, guestKeys, answered, now>>
    BY <1>3 DEF BeginRefresh, r
  <2>5. QED
    BY <2>2, <2>3, <2>4, CallStep
<1>4. CASE BeginEndSession(c, t)
  <2> DEFINE r == [op |-> "end", target |-> rows[t].session, at |-> now, step |-> "update",
                   seen |-> {}, token |-> NoToken, user |-> NoUser, holds |-> {}]
  <2>1. r \in EndCall
    BY <1>1, <1>2 DEF EndCall, Rows, Steps
  <2>2. Holds(r)
    BY <1>1, <2>1, CredentialsAssumption
       DEF Holds, Serving, LocksHold, RefreshHolds, EndHolds, MakerHolds, AttemptHolds, Makers,
           Answering, Rows
  <2>3. \A d \in Calls \ {c} : calls[d] # Free => Apart(r, calls[d])
    BY DEF Apart, Makers, Answering
  <2> HIDE DEF r
  <2>4. calls' = [calls EXCEPT ![c] = r] /\ UNCHANGED <<users, rows, guestKeys, answered, now>>
    BY <1>4 DEF BeginEndSession, r
  <2>5. QED
    BY <2>2, <2>3, <2>4, CallStep
<1>5. QED
  BY <1>3, <1>4

\* A request that goes on with more of its locks: what it holds is nobody else's.
Continues(c, r) ==
  /\ calls[c] # Free
  /\ r.op = calls[c].op /\ r.user = calls[c].user
  /\ r.op \in Answering \cup {"complete"} => r.attempt = calls[c].attempt
  /\ r.op = "link" => r.identity = calls[c].identity
  /\ r.holds \cap HeldByOthers(c) = {}
  /\ r.token = calls[c].token \/ r.token \in UnusedTokens

\* It stays apart from the others.
LEMMA RequestContinues ==
  ASSUME LoginInv, NEW c \in Calls, NEW r, Continues(c, r), Holds(r),
         calls' = [calls EXCEPT ![c] = r],
         UNCHANGED <<users, rows, guestKeys, answered, now, attempts, bindings>>
  PROVE  LoginInv'
<1> USE DEF Continues
<1>1. ASSUME NEW d \in Calls \ {c}, calls[d] # Free
      PROVE  Apart(r, calls[d])
  <2>1. Apart(calls[c], calls[d]) /\ calls[d].op # "free"
    BY <1>1, RequestsHold
  <2>2. r.holds \cap calls[d].holds = {}
    BY <2>1 DEF HeldByOthers
  <2>3. r.token # NoToken => r.token # calls[d].token
    BY <2>1 DEF UnusedTokens, Apart
  <2>4. QED
    BY <2>1, <2>2, <2>3 DEF Apart, Makers, Answering
<1>2. QED
  BY <1>1, CallStep

\* DecideRotation: the row is locked and the successor is chosen.
LEMMA RotationBegins ==
  ASSUME LoginInv, NEW c \in Calls, NEW successor \in Tokens, DecideRotation(c, successor),
         UNCHANGED <<attempts, bindings>>
  PROVE  LoginInv'
<1>1. /\ calls[c] # Free /\ Holds(calls[c]) /\ calls[c] \in RefreshCall
  BY RequestsHold, ServingKinds DEF DecideRotation
<1>2. PICK t \in Tokens : t = calls[c].presented
  BY <1>1 DEF RefreshCall
<1>3. t \notin HeldByOthers(c) /\ Active(t) /\ successor \in UnusedTokens
  BY <1>2 DEF DecideRotation, CanLock, Renewal
<1>4. PICK r \in RefreshCall : r = [calls[c] EXCEPT !.holds = {t}, !.token = successor]
  BY <1>1 DEF RefreshCall
<1>5. /\ r.op = "refresh" /\ r.presented = t /\ r.holds = {t} /\ r.token = successor
      /\ r.level = calls[c].level /\ r.user = calls[c].user
  BY <1>1, <1>2, <1>4 DEF RefreshCall
<1>6. Holds(r)
  <2>1. RefreshHolds(r)
    BY <1>1, <1>2, <1>3, <1>5, CredentialsAssumption DEF Holds, RefreshHolds, RefreshCall, Active
  <2>2. LocksHold(r)
    BY <1>3, <1>5 DEF LocksHold, UnusedTokens
  <2>3. EndHolds(r) /\ MakerHolds(r) /\ AttemptHolds(r)
    BY <1>5 DEF EndHolds, MakerHolds, AttemptHolds, Makers, Answering
  <2>4. QED
    BY <1>4, <2>1, <2>2, <2>3 DEF Holds, Serving
<1>7. /\ calls' = [calls EXCEPT ![c] = r] /\ UNCHANGED <<users, rows, guestKeys, answered, now>>
  BY <1>2, <1>4 DEF DecideRotation, LoginInv, LoginTypes
<1>8. Continues(c, r)
  BY <1>1, <1>3, <1>5 DEF Continues, Answering, RefreshCall
<1>9. QED
  BY <1>6, <1>7, <1>8, RequestContinues

\* A request that ends without writing.
LEMMA RequestEnds ==
  ASSUME LoginInv, NEW c \in Calls, calls' = [calls EXCEPT ![c] = Free],
         UNCHANGED <<users, rows, guestKeys, answered, now, attempts, bindings>>
  PROVE  LoginInv'
  BY CallStep

\* What ending sessions has locked and found, from one step to the next.
LEMMA EndingContinues ==
  ASSUME LoginInv, NEW c \in Calls, IsEnding(c),
         NEW step \in Steps, NEW seen \in SUBSET Tokens, NEW holds \in SUBSET Tokens, NEW r,
         r = [calls[c] EXCEPT !.step = step, !.seen = seen, !.holds = holds],
         calls[c].op = "end" => step # "ended" /\ holds = {},
         \A t \in holds : Active(t) /\ t \notin HeldByOthers(c),
         step = "ended" => StillActive(c) = {} /\ holds = calls[c].holds,
         calls' = [calls EXCEPT ![c] = r],
         UNCHANGED <<users, rows, guestKeys, answered, now, attempts, bindings>>
  PROVE  LoginInv'
<1>1. calls[c] # Free /\ Holds(calls[c]) /\ calls[c] \in Serving
  BY RequestsHold DEF IsEnding
<1>2. calls[c] \in EndCall \cup LinkCall \cup CompleteCall
  BY <1>1, ServingKinds DEF IsEnding
<1>3. /\ r \in EndCall \cup LinkCall \cup CompleteCall
      /\ r.op = calls[c].op /\ r.user = calls[c].user /\ r.token = calls[c].token
      /\ r.target = calls[c].target /\ r.step = step /\ r.holds = holds
  BY <1>2 DEF EndCall, LinkCall, CompleteCall
<1>4. /\ r.op \in {"link", "complete"} => r.attempt = calls[c].attempt
      /\ r.op = "link" => r.identity = calls[c].identity
  BY <1>2 DEF EndCall, LinkCall, CompleteCall
<1>5. Continues(c, r)
  BY <1>1, <1>2, <1>3, <1>4 DEF Continues, Answering, EndCall, LinkCall, CompleteCall
<1>6. Holds(r)
  <2>1. LocksHold(r)
    BY <1>1, <1>3 DEF Holds, LocksHold
  <2>2. EndHolds(r)
    BY <1>1, <1>3 DEF Holds, EndHolds, StillActive
  <2>3. RefreshHolds(r)
    BY <1>2, <1>3 DEF RefreshHolds, EndCall, LinkCall, CompleteCall
  <2>4. MakerHolds(r) /\ AttemptHolds(r)
    BY <1>1, <1>2, <1>3, <1>4 DEF Holds, MakerHolds, AttemptHolds, Makers, Answering, EndCall, LinkCall, CompleteCall
  <2>5. QED
    BY <1>3, <2>1, <2>2, <2>3, <2>4 DEF Holds, Serving
<1>7. QED
  BY <1>5, <1>6, RequestContinues

\* BeginUpdate, FinishUpdate of a login, CountActive that does not answer.
LEMMA EndingStep ==
  ASSUME LoginInv, NEW c \in Calls, UNCHANGED <<attempts, bindings>>,
         \/ BeginUpdate(c)
         \/ FinishUpdate(c) /\ calls[c].op # "end"
         \/ CountActive(c) /\ ~ (calls[c].op = "end" /\ AfterCount(c) = "ended")
  PROVE  LoginInv'
<1>1. /\ IsEnding(c) /\ calls[c] # Free /\ Holds(calls[c]) /\ calls[c] \in Serving
      /\ \A d \in Calls \ {c} : calls[d] # Free => Apart(calls[c], calls[d])
  BY RequestsHold DEF BeginUpdate, FinishUpdate, CountActive, IsEnding
<1>2. calls[c] \in EndCall \cup LinkCall \cup CompleteCall
  BY <1>1, ServingKinds DEF IsEnding
<1>3. \A t \in calls[c].holds : Active(t) /\ t \notin HeldByOthers(c)
  BY <1>1, RequestsHold DEF Holds, LocksHold, HeldByOthers, Apart
<1>4. /\ calls[c].holds \in SUBSET Tokens /\ calls[c].seen \in SUBSET Tokens
      /\ calls[c].op = "end" => calls[c].holds = {}
  BY <1>2 DEF EndCall, LinkCall, CompleteCall
<1>5. CASE BeginUpdate(c)
  <2>1. PICK seen \in SUBSET Tokens : seen = StillActive(c)
    BY DEF StillActive, Covered, Rows
  <2>2. PICK r : r = [calls[c] EXCEPT !.step = "wait", !.seen = seen, !.holds = calls[c].holds]
    OBVIOUS
  <2>3. calls' = [calls EXCEPT ![c] = r]
    BY <1>2, <1>5, <2>1, <2>2 DEF BeginUpdate, LoginInv, LoginTypes, EndCall, LinkCall, CompleteCall
  <2>4. UNCHANGED <<users, rows, guestKeys, answered, now>>
    BY <1>5 DEF BeginUpdate
  <2>5. "wait" \in Steps /\ "wait" # "ended"
    BY DEF Steps
  <2>6. QED
    BY <1>1, <1>3, <1>4, <2>2, <2>3, <2>4, <2>5, EndingContinues
<1>6. CASE FinishUpdate(c) /\ calls[c].op # "end"
  <2>1. PICK ended \in SUBSET Tokens : ended = {t \in calls[c].seen : Active(t)}
    BY <1>4
  <2>2. PICK holds \in SUBSET Tokens : holds = calls[c].holds \cup ended
    BY <1>4
  <2>3. PICK r : r = [calls[c] EXCEPT !.step = "count", !.seen = {}, !.holds = holds]
    OBVIOUS
  <2>4. calls' = [calls EXCEPT ![c] = r]
    BY <1>2, <1>6, <2>1, <2>2, <2>3
       DEF FinishUpdate, LoginInv, LoginTypes, EndCall, LinkCall, CompleteCall
  <2>5. \A t \in holds : Active(t) /\ t \notin HeldByOthers(c)
    BY <1>3, <1>6, <2>1, <2>2 DEF FinishUpdate
  <2>6. QED
    BY <1>1, <1>6, <2>3, <2>4, <2>5, EndingContinues DEF FinishUpdate, Steps
<1>7. CASE CountActive(c) /\ ~ (calls[c].op = "end" /\ AfterCount(c) = "ended")
  <2>1. PICK step \in {"update", "ended"} : step = AfterCount(c)
    BY DEF AfterCount
  <2>2. PICK r : r = [calls[c] EXCEPT !.step = step, !.seen = calls[c].seen, !.holds = calls[c].holds]
    OBVIOUS
  <2>3. calls' = [calls EXCEPT ![c] = r]
    <3>1. calls' = [calls EXCEPT ![c].step = step]
      BY <1>7, <2>1 DEF CountActive
    <3>2. [calls[c] EXCEPT !.step = step] = r
      BY <1>2, <2>2 DEF EndCall, LinkCall, CompleteCall
    <3>3. QED
      BY <3>1, <3>2 DEF LoginInv, LoginTypes
  <2>4. step = "ended" => StillActive(c) = {}
    BY <2>1 DEF AfterCount
  <2>5. QED
    BY <1>1, <1>3, <1>4, <1>7, <2>1, <2>2, <2>3, <2>4, EndingContinues DEF CountActive, Steps
<1>8. QED
  BY <1>5, <1>6, <1>7

\* MakeAccount: one request makes the account of a User who is none yet.
LEMMA AccountBegins ==
  ASSUME LoginInv, NEW c \in Calls, NEW u \in Users, MakeAccount(c, u)
  PROVE  LoginInv'
<1>1. calls[c] # Free /\ Holds(calls[c]) /\ calls[c] \in CallbackCall
  BY RequestsHold, ServingKinds DEF MakeAccount, Resolving
<1>2. PICK a \in Attempts, at \in Time, identity \in Identities :
        a = calls[c].attempt /\ at = calls[c].at /\ identity = calls[c].identity
  BY <1>1 DEF CallbackCall
<1>3. /\ Started(a) /\ attempts[a].answered /\ attempts[a].user = NoUser
  BY <1>1, <1>2 DEF Holds, AttemptHolds, Answering, CallbackCall
<1>4. /\ users[u] # "account"
      /\ \A d \in Calls : calls[d].op \in Makers => calls[d].user # u
  BY CredentialsAssumption DEF MakeAccount, AccountToMake, MakingAccount, UnusedUsers, Makers
<1> DEFINE r == [op |-> "create", attempt |-> a, at |-> at, identity |-> identity,
                 token |-> NoToken, user |-> u, holds |-> {}]
<1>5. r \in CreateCall
  BY DEF CreateCall
<1>6. Holds(r)
  BY <1>3, <1>4, <1>5, CredentialsAssumption
     DEF Holds, Serving, LocksHold, RefreshHolds, EndHolds, MakerHolds, AttemptHolds, Makers,
         Answering, Rows
<1>7. ASSUME NEW d \in Calls \ {c}, calls[d] # Free
      PROVE  Apart(r, calls[d])
  <2>1. Apart(calls[c], calls[d])
    BY <1>1, <1>7, RequestsHold
  <2>2. QED
    BY <1>1, <1>2, <1>4, <2>1 DEF Apart, Makers, Answering, CallbackCall
<1> HIDE DEF r
<1>8. /\ calls' = [calls EXCEPT ![c] = r]
      /\ UNCHANGED <<users, rows, guestKeys, answered, now, attempts, bindings>>
  BY <1>2 DEF MakeAccount, r, credentialVars
<1>9. QED
  BY <1>6, <1>7, <1>8, CallStep

\* BindIdentity: the identity is this request's, or its login starts again.
LEMMA BindingStep ==
  ASSUME LoginInv, NEW c \in Calls, BindIdentity(c)
  PROVE  LoginInv'
<1>1. /\ calls[c] # Free /\ Holds(calls[c]) /\ calls[c] \in CreateCall
      /\ \A d \in Calls \ {c} : calls[d] # Free => Apart(calls[c], calls[d])
  BY RequestsHold, ServingKinds DEF BindIdentity
<1>2. PICK a \in Attempts, at \in Time, identity \in Identities, u \in Users :
        /\ a = calls[c].attempt /\ at = calls[c].at /\ identity = calls[c].identity
        /\ u = calls[c].user
  BY <1>1 DEF CreateCall
<1>3. /\ Started(a) /\ attempts[a].answered /\ attempts[a].user = NoUser
      /\ users[u] # "account"
  BY <1>1, <1>2 DEF Holds, AttemptHolds, MakerHolds, Answering, Makers, CreateCall
<1>4. UNCHANGED <<users, rows, guestKeys, answered, now, attempts, bindings>>
  BY DEF BindIdentity, credentialVars
<1>5. CASE bindings[identity] # NoUser
  <2>1. PICK r \in CallbackCall : r = [calls[c] EXCEPT !.op = "callback", !.user = NoUser]
    BY <1>1 DEF CreateCall, CallbackCall
  <2>2. /\ r.op = "callback" /\ r.attempt = a /\ r.holds = {} /\ r.token = NoToken
    BY <1>1, <1>2, <2>1 DEF CreateCall
  <2>3. Holds(r)
    BY <1>3, <2>1, <2>2, CredentialsAssumption
       DEF Holds, Serving, LocksHold, RefreshHolds, EndHolds, MakerHolds, AttemptHolds, Makers,
           Answering, Rows
  <2>4. \A d \in Calls \ {c} : calls[d] # Free => Apart(r, calls[d])
    BY <1>1, <1>2, <2>2 DEF Apart, Makers, Answering, CreateCall
  <2>5. calls' = [calls EXCEPT ![c] = r]
    BY <1>2, <1>5, <2>1 DEF BindIdentity, BoundMeanwhile
  <2>6. QED
    BY <1>4, <2>3, <2>4, <2>5, CallStep
<1>6. CASE bindings[identity] = NoUser
  <2>1. PICK step \in {"ended", "update"} :
          /\ step = IF users[u] = Nobody THEN "ended" ELSE "update"
    OBVIOUS
  <2> DEFINE r == [op |-> "link", attempt |-> a, at |-> at, identity |-> identity, target |-> u,
                   step |-> step, seen |-> {}, token |-> NoToken, user |-> u, holds |-> {}]
  <2>2. r \in LinkCall
    BY DEF LinkCall, Steps
  <2>3. users[u] = Nobody => Covered(u) = {}
    BY LoginRows, CredentialsAssumption DEF Covered, LoginInv, RowsBelong, SessionRow
  <2>4. EndHolds(r)
    BY <2>1, <2>3 DEF EndHolds
  <2>5. LocksHold(r) /\ RefreshHolds(r) /\ MakerHolds(r) /\ AttemptHolds(r)
    BY <1>3, <1>6, CredentialsAssumption
       DEF LocksHold, RefreshHolds, MakerHolds, AttemptHolds, Makers, Answering, Rows
  <2>6. Holds(r)
    BY <2>2, <2>4, <2>5 DEF Holds, Serving
  <2>7. \A d \in Calls \ {c} : calls[d] # Free => Apart(r, calls[d])
    <3>1. \A d \in Calls : calls[d].op = "link" => calls[d].identity # identity
      BY <1>2 DEF BindIdentity, Binding
    <3>2. QED
      BY <1>1, <1>2, <3>1 DEF Apart, Makers, Answering, CreateCall
  <2> HIDE DEF r
  <2>8. calls' = [calls EXCEPT ![c] = r]
    BY <1>2, <1>6, <2>1 DEF BindIdentity, Bound, Linking, r
  <2>9. QED
    BY <1>4, <2>6, <2>7, <2>8, CallStep
<1>7. QED
  BY <1>5, <1>6

\* BeginCompletion: the code is one request's until it ends.
LEMMA CompletionBegins ==
  ASSUME LoginInv, NEW c \in Calls, NEW a \in Attempts, NEW t \in Tokens,
         NEW replaces \in Tokens \cup {NoToken}, BeginCompletion(c, a, t, replaces)
  PROVE  LoginInv'
<1>1. /\ Started(a) /\ ~ attempts[a].closed /\ attempts[a].user \in Users
      /\ now \in Time /\ t \in UnusedTokens /\ replaces \in Rows \cup {NoToken}
  BY LoginRows DEF BeginCompletion, HasCode, Completable, Attempt, LoginInv, LoginTypes
<1>2. PICK u \in Users : u = attempts[a].user
  BY <1>1
<1>3. PICK target \in Rows \cup {NoToken} :
        target = IF replaces = NoToken THEN NoToken ELSE rows[replaces].session
  BY <1>1 DEF LoginInv, RowsBelong
<1>4. PICK step \in {"ended", "update"} : step = IF replaces = NoToken THEN "ended" ELSE "update"
  OBVIOUS
<1> DEFINE r == [op |-> "complete", attempt |-> a, at |-> now, target |-> target, step |-> step,
                 seen |-> {}, token |-> t, user |-> u, holds |-> {}]
<1>5. r \in CompleteCall
  BY <1>1, <1>3 DEF CompleteCall, Steps, Rows
<1>6. EndHolds(r)
  BY <1>3, <1>4 DEF EndHolds
<1>7. LocksHold(r) /\ RefreshHolds(r) /\ MakerHolds(r) /\ AttemptHolds(r)
  BY <1>1, <1>2 DEF LocksHold, RefreshHolds, MakerHolds, AttemptHolds, Makers, Answering, UnusedTokens
<1>8. Holds(r)
  BY <1>5, <1>6, <1>7 DEF Holds, Serving
<1>9. \A d \in Calls \ {c} : calls[d] # Free => Apart(r, calls[d])
  BY <1>1, RequestsHold DEF Apart, Makers, Answering, BeginCompletion, AttemptHeld, UnusedTokens
<1> HIDE DEF r
<1>10. /\ calls' = [calls EXCEPT ![c] = r]
       /\ UNCHANGED <<users, rows, guestKeys, answered, now, attempts, bindings>>
  BY <1>2, <1>3, <1>4 DEF BeginCompletion, credentialVars, r
<1>11. QED
  BY <1>8, <1>9, <1>10, CallStep

-----------------------------------------------------------------------------
(* Steps that write an attempt only. *)

\* The attempt written is no other request's, and what it opened it keeps.
LEMMA AttemptStep ==
  ASSUME LoginInv, NEW a \in Attempts, NEW row \in Attempt, attempts' = [attempts EXCEPT ![a] = row],
         row.user # NoUser => row.answered /\ users[row.user] = "account",
         row.opened # NoToken => row.closed /\ row.user # NoUser,
         Started(a) /\ attempts[a].opened # NoToken =>
           row.opened = attempts[a].opened /\ row.user = attempts[a].user,
         UNCHANGED <<users, rows, guestKeys, answered, now, bindings>>
  PROVE  /\ DOMAIN calls' = Calls /\ CallsHold' /\ CallsAreApart' => LoginInv'
         /\ \A q : Holds(q) /\ (q.op \in Answering \cup {"complete"} => q.attempt # a) => Holds(q)'
<1>1. /\ attempts' \in [Attempts -> Attempt \cup {NoRow}]
      /\ attempts'[a] = row /\ row # NoRow
      /\ \A b \in Attempts \ {a} : attempts'[b] = attempts[b]
  BY LoginRows DEF LoginInv, LoginTypes
<1>2. AttemptsAreKept'
  BY <1>1 DEF LoginInv, AttemptsAreKept, Started
<1>3. CodesSignInOnce'
  <2>1. ASSUME NEW b \in Attempts, Started(b), NEW t \in Rows, attempts[b].opened = t
        PROVE  attempts'[b] # NoRow /\ attempts'[b].opened = t /\ attempts'[b].closed
               /\ attempts'[b].user = attempts[b].user
    BY <1>1, <2>1, CredentialsAssumption DEF LoginInv, AttemptsAreKept, Started, Rows
  <2>2. QED
    BY <2>1 DEF LoginInv, CodesSignInOnce, Rows, Started
<1>4. ASSUME DOMAIN calls' = Calls, CallsHold', CallsAreApart'
      PROVE  LoginInv'
  <2>1. LoginTypes' /\ RowsBelong' /\ ReplacedHaveNext' /\ OneActive' /\ EndedStaysEnded'
    BY <1>1, <1>4 DEF LoginInv, LoginTypes, RowsBelong, ReplacedHaveNext, OneActive, EndedStaysEnded,
                      Active, Rows
  <2>2. AccountRows' /\ GuestsHaveKeys' /\ IdentitiesAreBound'
    BY DEF LoginInv, AccountRows, GuestsHaveKeys, IdentitiesAreBound, Active, Rows
  <2>3. QED
    BY <1>2, <1>3, <1>4, <2>1, <2>2 DEF LoginInv
<1>5. ASSUME NEW q, Holds(q), q.op \in Answering \cup {"complete"} => q.attempt # a
      PROVE  Holds(q)'
  <2>1. LocksHold(q)' /\ RefreshHolds(q)' /\ EndHolds(q)' /\ MakerHolds(q)'
    BY <1>5 DEF Holds, LocksHold, RefreshHolds, EndHolds, MakerHolds, Covered, Active, Rows
  <2>2. q.op \in Answering \cup {"complete"} => q.attempt \in Attempts
    BY <1>5, ServingKinds DEF Holds, Answering, CallbackCall, CreateCall, LinkCall, CompleteCall
  <2>3. AttemptHolds(q)'
    BY <1>1, <1>5, <2>2 DEF Holds, AttemptHolds, Started
  <2>4. QED
    BY <1>5, <2>1, <2>3 DEF Holds
<1>6. QED
  BY <1>4, <1>5

\* Whose attempt a request is serving.
LEMMA ServedAttempts ==
  ASSUME LoginInv, NEW d \in Calls, calls[d] # Free
  PROVE  /\ calls[d].op \in Answering =>
              /\ Started(calls[d].attempt) /\ attempts[calls[d].attempt].answered
              /\ attempts[calls[d].attempt].user = NoUser
         /\ calls[d].op = "complete" =>
              /\ Started(calls[d].attempt)
              /\ attempts[calls[d].attempt].user \in Users
              /\ attempts[calls[d].attempt].answered
<1>1. Holds(calls[d]) /\ calls[d] \in Serving
  BY RequestsHold
<1>2. calls[d].op = "complete" => calls[d].user \in Users /\ calls[d].attempt \in Attempts
  BY <1>1, ServingKinds DEF CompleteCall
<1>3. QED
  BY <1>1, <1>2, CredentialsAssumption DEF Holds, AttemptHolds, LoginInv, AttemptsAreKept

\* Requests that go on as they were hold what they hold.
LEMMA CallsUnchanged ==
  ASSUME LoginInv, UNCHANGED calls, \A d \in Calls : \A q : q = calls[d] /\ q # Free => Holds(q)'
  PROVE  DOMAIN calls' = Calls /\ CallsHold' /\ CallsAreApart'
<1>1. ASSUME NEW d \in Calls, calls'[d] # Free
      PROVE  Holds(calls[d])'
  <2>1. PICK q : q = calls'[d]
    OBVIOUS
  <2>2. Holds(q)'
    BY <1>1, <2>1
  <2>3. QED
    BY <2>1, <2>2
<1>2. QED
  BY <1>1 DEF LoginInv, LoginTypes, CallsHold, CallsAreApart

\* StartLogin: a new attempt nobody answered.
LEMMA StartStep ==
  ASSUME LoginInv, NEW a \in Attempts, NEW guest \in Users \cup {NoUser}, StartLogin(a, guest)
  PROVE  LoginInv'
<1> DEFINE row == [guest |-> guest, at |-> now, answered |-> FALSE, user |-> NoUser, expires |-> 0,
                   closed |-> FALSE, opened |-> NoToken]
<1>1. row \in Attempt /\ row.user = NoUser /\ row.opened = NoToken
  BY DEF Attempt, LoginInv, LoginTypes
<1>2. ~ Started(a) /\ UNCHANGED calls
  BY DEF StartLogin
<1> HIDE DEF row
<1>3. attempts' = [attempts EXCEPT ![a] = row] /\ UNCHANGED <<users, rows, guestKeys, answered, now, bindings>>
  BY DEF StartLogin, credentialVars, row
<1>4. \A d \in Calls : calls[d] # Free /\ calls[d].op \in Answering \cup {"complete"} => calls[d].attempt # a
  BY <1>2, ServedAttempts
<1>5. \A d \in Calls : \A q : q = calls[d] /\ q # Free => Holds(q)'
  BY <1>1, <1>2, <1>3, <1>4, AttemptStep, RequestsHold
<1>6. QED
  BY <1>1, <1>2, <1>3, <1>5, AttemptStep, CallsUnchanged

\* RejectCode: the code is used up.
LEMMA RejectStep ==
  ASSUME LoginInv, NEW c \in Calls, NEW a \in Attempts, NEW matches \in BOOLEAN, RejectCode(c, a, matches)
  PROVE  LoginInv'
<1>1. /\ Started(a) /\ attempts[a] \in Attempt /\ attempts[a].user # NoUser
      /\ attempts[a].answered /\ users[attempts[a].user] = "account"
  BY LoginRows DEF RejectCode, HasCode, LoginInv, AttemptsAreKept
<1>2. PICK row \in Attempt : row = [attempts[a] EXCEPT !.closed = TRUE]
  BY <1>1 DEF Attempt
<1>3. /\ row.closed /\ row.user = attempts[a].user /\ row.opened = attempts[a].opened
      /\ row.answered = attempts[a].answered
  BY <1>1, <1>2 DEF Attempt
<1>4. /\ attempts' = [attempts EXCEPT ![a] = row] /\ UNCHANGED calls
      /\ UNCHANGED <<users, rows, guestKeys, answered, now, bindings>>
  BY <1>2 DEF RejectCode, credentialVars, LoginInv, LoginTypes
<1>5. \A d \in Calls : calls[d] # Free /\ calls[d].op \in Answering \cup {"complete"} => calls[d].attempt # a
  BY <1>1, ServedAttempts DEF RejectCode, AttemptHeld
<1>6. \A d \in Calls : \A q : q = calls[d] /\ q # Free => Holds(q)'
  BY <1>1, <1>3, <1>4, <1>5, AttemptStep, RequestsHold
<1>7. QED
  BY <1>1, <1>3, <1>4, <1>6, AttemptStep, CallsUnchanged

\* AnswerAttempt: the attempt is answered once, by this request.
LEMMA AnswerStep ==
  ASSUME LoginInv, NEW c \in Calls, NEW a \in Attempts, NEW identity \in Identities \cup {Nobody},
         AnswerAttempt(c, a, identity)
  PROVE  LoginInv'
<1>1. /\ Started(a) /\ attempts[a] \in Attempt /\ ~ attempts[a].answered /\ attempts[a].user = NoUser
  BY LoginRows DEF AnswerAttempt, CanAnswer, LoginInv, AttemptsAreKept
<1>2. PICK row \in Attempt : row = [attempts[a] EXCEPT !.answered = TRUE]
  BY <1>1 DEF Attempt
<1>3. /\ row.closed = attempts[a].closed /\ row.user = NoUser /\ row.opened = attempts[a].opened
      /\ row.answered
  BY <1>1, <1>2 DEF Attempt
<1>4. /\ attempts' = [attempts EXCEPT ![a] = row]
      /\ UNCHANGED <<users, rows, guestKeys, answered, now, bindings>>
  BY <1>2 DEF AnswerAttempt, credentialVars, LoginInv, LoginTypes
<1>5. \A d \in Calls : calls[d] # Free /\ calls[d].op \in Answering \cup {"complete"} => calls[d].attempt # a
  BY <1>1, ServedAttempts
<1>6. \A d \in Calls : \A q : q = calls[d] /\ q # Free => Holds(q)'
  <2>1. attempts[a].opened = NoToken
    BY <1>1 DEF LoginInv, AttemptsAreKept
  <2>2. \A q : Holds(q) /\ (q.op \in Answering \cup {"complete"} => q.attempt # a) => Holds(q)'
    BY <1>1, <1>3, <1>4, <2>1, AttemptStep
  <2>3. QED
    BY <1>5, <2>2, RequestsHold
<1>7. CallsHold' /\ CallsAreApart' /\ DOMAIN calls' = Calls
  <2>1. CASE identity = Nobody
    BY <1>6, <2>1, CallsKept DEF AnswerAttempt
  <2>2. CASE identity # Nobody
    <3>1. PICK r \in CallbackCall :
            r = [op |-> "callback", attempt |-> a, at |-> now, identity |-> identity,
                 token |-> NoToken, user |-> NoUser, holds |-> {}]
      BY <2>2 DEF CallbackCall, LoginInv, LoginTypes
    <3>2. LocksHold(r)' /\ RefreshHolds(r)' /\ EndHolds(r)' /\ MakerHolds(r)'
      BY <1>4, <3>1, CredentialsAssumption DEF LocksHold, RefreshHolds, EndHolds, MakerHolds, Makers, Rows
    <3>3. AttemptHolds(r)'
      <4>1. attempts'[a] = row /\ row # NoRow
        BY <1>4, LoginRows DEF LoginInv, LoginTypes
      <4>2. QED
        BY <1>3, <3>1, <4>1 DEF AttemptHolds, Started
    <3>4. \A d \in Calls \ {c} : calls[d] # Free => Apart(r, calls[d])
      BY <1>5, <3>1 DEF Apart, Makers, Answering
    <3>5. Holds(r)'
      BY <3>1, <3>2, <3>3 DEF Holds, Serving
    <3>6. calls' = [calls EXCEPT ![c] = r]
      BY <2>2, <3>1 DEF AnswerAttempt
    <3>7. QED
      BY <1>6, <3>4, <3>5, <3>6, CallsKept
  <2>3. QED
    BY <2>1, <2>2
<1>8. QED
  BY <1>1, <1>3, <1>4, <1>7, AttemptStep DEF LoginInv, AttemptsAreKept

\* The attempt a request answered is given the User its code is for.
LEMMA CodeIssued ==
  ASSUME LoginInv, NEW c \in Calls, calls[c] # Free, calls[c].op \in Answering, NEW u \in Users
  PROVE  \E a \in Attempts, row \in Attempt :
           /\ a = calls[c].attempt /\ IssueCode(c, u) = [attempts EXCEPT ![a] = row]
           /\ row.user = u /\ row.answered /\ row.opened = NoToken
           /\ Started(a) /\ attempts[a].opened = NoToken
           /\ \A d \in Calls \ {c} : calls[d] # Free /\ calls[d].op \in Answering \cup {"complete"} =>
                calls[d].attempt # a
<1>1. /\ Holds(calls[c]) /\ calls[c] \in CallbackCall \cup CreateCall \cup LinkCall
      /\ \A d \in Calls \ {c} : calls[d] # Free => Apart(calls[c], calls[d])
  BY RequestsHold, ServingKinds DEF Answering
<1>2. PICK a \in Attempts, at \in Nat : a = calls[c].attempt /\ at = calls[c].at
  BY <1>1, TimesAssumption DEF CallbackCall, CreateCall, LinkCall, Time
<1>3. /\ Started(a) /\ attempts[a].answered /\ attempts[a].user = NoUser /\ attempts[a].opened = NoToken
      /\ attempts[a] \in Attempt
  BY <1>1, <1>2, LoginRows DEF Holds, AttemptHolds, LoginInv, AttemptsAreKept
<1>4. PICK expires \in Nat : expires = at + CodeLifetime
  BY LifetimesAssumption
<1>5. PICK row \in Attempt : row = [attempts[a] EXCEPT !.user = u, !.expires = expires]
  BY <1>3 DEF Attempt
<1>6. row.user = u /\ row.answered /\ row.opened = NoToken
  BY <1>3, <1>5 DEF Attempt
<1>7. IssueCode(c, u) = [attempts EXCEPT ![a] = row]
  BY <1>2, <1>4, <1>5 DEF IssueCode, LoginInv, LoginTypes
<1>8. ASSUME NEW d \in Calls \ {c}, calls[d] # Free, calls[d].op \in Answering \cup {"complete"}
      PROVE  calls[d].attempt # a
  BY <1>1, <1>2, <1>3, <1>8, ServedAttempts, CredentialsAssumption DEF Apart
<1>9. QED
  BY <1>2, <1>3, <1>6, <1>7, <1>8

\* ResolveExisting: the identity's account signs in.
LEMMA ResolveStep ==
  ASSUME LoginInv, NEW c \in Calls, ResolveExisting(c)
  PROVE  LoginInv'
<1>1. /\ calls[c] # Free /\ calls[c] \in CallbackCall /\ calls[c].op \in Answering
  BY RequestsHold, ServingKinds DEF ResolveExisting, Resolving, Answering
<1>2. PICK u \in Users : u = bindings[calls[c].identity] /\ users[u] = "account"
  <2>1. PICK i \in Identities : i = calls[c].identity
    BY <1>1 DEF CallbackCall
  <2>2. bindings[i] \in Users
    BY <2>1 DEF ResolveExisting, LoginInv, LoginTypes
  <2>3. QED
    BY <2>1, <2>2 DEF LoginInv, IdentitiesAreBound
<1>3. PICK a \in Attempts, row \in Attempt :
        /\ a = calls[c].attempt /\ IssueCode(c, u) = [attempts EXCEPT ![a] = row]
        /\ row.user = u /\ row.answered /\ row.opened = NoToken
        /\ Started(a) /\ attempts[a].opened = NoToken
        /\ \A d \in Calls \ {c} : calls[d] # Free /\ calls[d].op \in Answering \cup {"complete"} =>
             calls[d].attempt # a
  BY <1>1, CodeIssued
<1>4. /\ attempts' = [attempts EXCEPT ![a] = row] /\ calls' = [calls EXCEPT ![c] = Free]
      /\ UNCHANGED <<users, rows, guestKeys, answered, now, bindings>>
  BY <1>2, <1>3 DEF ResolveExisting, credentialVars
<1>5. \A d \in Calls \ {c} : \A q : q = calls[d] /\ q # Free => Holds(q)'
  <2>1. \A q : Holds(q) /\ (q.op \in Answering \cup {"complete"} => q.attempt # a) => Holds(q)'
    BY <1>2, <1>3, <1>4, AttemptStep
  <2>2. QED
    BY <1>3, <2>1, RequestsHold
<1>6. CallsHold' /\ CallsAreApart' /\ DOMAIN calls' = Calls
  BY <1>4, <1>5, CallsKept
<1>7. QED
  BY <1>2, <1>3, <1>4, <1>6, AttemptStep

-----------------------------------------------------------------------------
(* Steps that write rows. *)

\* Rows keep their session and User, and none is active again; an active
\* one's User did not become an account.
RowsMove ==
  \A t \in Rows :
    /\ t \in Rows' /\ rows'[t].session = rows[t].session /\ rows'[t].user = rows[t].user
    /\ Active(t)' => /\ Active(t)
                     /\ users'[rows[t].user] = "account" => users[rows[t].user] = "account"

\* What such a step leaves of a request that still holds its rows and token.
LEMMA MovedHolds ==
  ASSUME RowsMove, NEW q, Holds(q), \A t \in q.holds : Active(t)', q.token \notin Rows',
         q.op \in {"link", "complete"} /\ q.step = "ended" /\ q.target # NoToken =>
           \A t \in Rows' \ Rows : rows'[t].session # q.target /\ rows'[t].user # q.target
  PROVE  LocksHold(q)' /\ RefreshHolds(q)' /\ EndHolds(q)'
<1>1. LocksHold(q)'
  BY DEF LocksHold
<1>2. RefreshHolds(q)'
  <2>1. ASSUME q.op = "refresh", q.presented \in Rows
        PROVE  /\ q.presented \in Rows'
               /\ Active(q.presented)' /\ users'[rows'[q.presented].user] = "account" =>
                    Active(q.presented) /\ users[rows[q.presented].user] = "account"
    BY <2>1 DEF RowsMove
  <2>2. QED
    BY <2>1 DEF Holds, RefreshHolds, Active, Rows
<1>3. EndHolds(q)'
  <2>1. ASSUME q.op \in {"link", "complete"}, q.step = "ended", q.target # NoToken,
               NEW t \in Covered(q.target)'
        PROVE  t \in q.holds
    <3>1. t \in Rows' /\ Active(t)' /\ (rows'[t].session = q.target \/ rows'[t].user = q.target)
      BY <2>1 DEF Covered
    <3>2. t \in Rows
      BY <2>1, <3>1
    <3>3. t \in Covered(q.target)
      BY <3>1, <3>2 DEF RowsMove, Covered
    <3>4. QED
      BY <2>1, <3>3 DEF Holds, EndHolds
  <2>2. q.op \in {"end", "complete"} /\ q.target # NoToken => q.target \in Rows'
    BY DEF Holds, EndHolds, RowsMove
  <2>3. q.op = "link" => q.target = q.user
    BY DEF Holds, EndHolds
  <2>4. QED
    BY <2>1, <2>2, <2>3 DEF EndHolds, Covered, Active, Rows
<1>4. QED
  BY <1>1, <1>2, <1>3

\* A new session is opened by a token no row has, beside rows that are kept
\* or end, for a User there is.
Opens(kept, t, u, at, expires) ==
  /\ kept \in [Tokens -> SessionRow \cup {NoRow}]
  /\ rows' = [kept EXCEPT ![t] = NewRow(t, u, at, at, expires)]
  /\ \A o \in Tokens : /\ kept[o] # NoRow <=> o \in Rows
                       /\ o \in Rows => /\ kept[o].session = rows[o].session
                                        /\ kept[o].user = rows[o].user
                                        /\ kept[o].replacedBy = rows[o].replacedBy
                                        /\ kept[o].ended = Never => rows[o].ended = Never
  /\ users' \in [Users -> User] /\ users'[u] # Nobody
  /\ \A x \in Users : users[x] # Nobody => users'[x] # Nobody

\* The other sessions stay as whole as they were.
LEMMA SessionOpens ==
  ASSUME LoginInv, NEW t \in Tokens \ Rows, NEW u \in Users, NEW at \in Time, NEW expires \in Nat,
         NEW kept, Opens(kept, t, u, at, expires)
  PROVE  /\ rows' \in [Tokens -> SessionRow \cup {NoRow}] /\ Rows' = Rows \cup {t}
         /\ rows'[t].session = t /\ rows'[t].user = u /\ rows'[t].expires = expires
         /\ rows'[t].started = at /\ Active(t)'
         /\ \A o \in Rows : rows'[o] = kept[o] /\ (Active(o)' => Active(o))
         /\ RowsBelong' /\ ReplacedHaveNext' /\ OneActive'
         /\ answered' \subseteq Rows /\ (\A o \in Rows : rows[o].session \in answered' => ~ Active(o)')
              => EndedStaysEnded'
<1> USE DEF Opens
<1> DEFINE row == NewRow(t, u, at, at, expires)
<1>1. row \in SessionRow
  BY DEF NewRow, SessionRow
<1>2. /\ row.session = t /\ row.user = u /\ row.ended = Never /\ row.replacedBy = NoToken
      /\ row.expires = expires /\ row.started = at /\ row # NoRow
  BY <1>1, LoginRows DEF NewRow
<1> HIDE DEF row
<1>3. rows' = [kept EXCEPT ![t] = row] /\ rows' \in [Tokens -> SessionRow \cup {NoRow}]
  BY <1>1 DEF row
<1>4. rows'[t] = row /\ \A o \in Rows : rows'[o] = kept[o] /\ o # t
  BY <1>3 DEF Rows
<1>5. Rows' = Rows \cup {t}
  BY <1>2, <1>3, <1>4 DEF Rows
<1>6. Active(t)' /\ \A o \in Rows : Active(o)' => Active(o)
  BY <1>2, <1>4, <1>5 DEF Active, Rows
<1>7. \A o \in Rows : /\ rows'[o].session = rows[o].session /\ rows'[o].user = rows[o].user
                      /\ rows'[o].replacedBy = rows[o].replacedBy
                      /\ rows[o].session \in Rows /\ rows[o].user \in Users
  BY <1>4, LoginRows DEF LoginInv, RowsBelong, SessionRow, Rows
<1>8. RowsBelong'
  BY <1>2, <1>4, <1>5, <1>7 DEF LoginInv, RowsBelong
<1>9. ReplacedHaveNext'
  BY <1>2, <1>4, <1>5, <1>6, <1>7 DEF LoginInv, ReplacedHaveNext
<1>10. OneActive'
  BY <1>2, <1>4, <1>5, <1>6, <1>7 DEF LoginInv, OneActive
<1>11. answered' \subseteq Rows /\ (\A o \in Rows : rows[o].session \in answered' => ~ Active(o)')
         => EndedStaysEnded'
  BY <1>2, <1>4, <1>5, <1>7 DEF EndedStaysEnded
<1>12. QED
  BY <1>2, <1>3, <1>4, <1>5, <1>6, <1>8, <1>9, <1>10, <1>11

\* CreateGuest: a guest nobody was, their key, and their session.
LEMMA GuestStep ==
  ASSUME LoginInv, NEW k \in Keys, NEW name \in Names, NEW u \in Users, NEW t \in Tokens,
         CreateGuest(k, name, u, t), UNCHANGED <<attempts, bindings>>
  PROVE  LoginInv'
<1>1. /\ t \in Tokens \ Rows /\ users[u] = Nobody /\ now \in Time /\ Never \in Nat
      /\ users' = [users EXCEPT ![u] = "guest"]
      /\ rows' = [rows EXCEPT ![t] = NewRow(t, u, now, now, Never)]
      /\ UNCHANGED <<calls, answered, now>>
  BY TimesAssumption DEF CreateGuest, UnusedTokens, UnusedUsers, LoginInv, LoginTypes
<1>2. /\ users' \in [Users -> User] /\ users'[u] = "guest"
      /\ \A x \in Users \ {u} : users'[x] = users[x]
      /\ "guest" # Nobody /\ "account" # Nobody
  BY <1>1, CredentialsAssumption DEF LoginInv, LoginTypes, User
<1>3. /\ rows' \in [Tokens -> SessionRow \cup {NoRow}] /\ Rows' = Rows \cup {t}
      /\ rows'[t].session = t /\ rows'[t].user = u
      /\ \A o \in Rows : rows'[o] = rows[o] /\ (Active(o)' => Active(o))
      /\ RowsBelong' /\ ReplacedHaveNext' /\ OneActive'
      /\ answered' \subseteq Rows /\ (\A o \in Rows : rows[o].session \in answered' => ~ Active(o)')
           => EndedStaysEnded'
  <2>1. Opens(rows, t, u, now, Never)
    BY <1>1, <1>2 DEF Opens, LoginInv, LoginTypes, Rows
  <2>2. QED
    BY <1>1, <2>1, SessionOpens
<1>4. EndedStaysEnded'
  BY <1>1, <1>3 DEF LoginInv, LoginTypes, EndedStaysEnded
<1>5. PICK request \in GuestRequest : request = [name |-> name, user |-> u, session |-> t, at |-> now]
  BY <1>1 DEF GuestRequest
<1>6. /\ guestKeys[k] = NoRow /\ guestKeys' = [guestKeys EXCEPT ![k] = request]
      /\ request.user = u /\ request.session = t /\ request # NoRow
  BY <1>5, LoginRows DEF CreateGuest
<1>7. /\ guestKeys' \in [Keys -> GuestRequest \cup {NoRow}] /\ guestKeys'[k] = request
      /\ \A x \in Keys \ {k} : guestKeys'[x] = guestKeys[x]
  BY <1>6 DEF LoginInv, LoginTypes
<1>8. \A o \in Rows : rows[o].user \in Users \ {u} /\ rows[o].session \in Rows
  BY <1>1, LoginRows DEF LoginInv, RowsBelong, SessionRow
<1>9. CallsHold' /\ CallsAreApart' /\ DOMAIN calls' = Calls
  <2>1. ASSUME NEW d \in Calls, NEW q, q = calls[d], q # Free
        PROVE  Holds(q)'
    <3>1. Holds(q) /\ q \in Serving /\ q.token # t /\ q.user # u
      BY <1>1, <2>1, RequestsHold DEF CreateGuest, UnusedTokens, UnusedUsers
    <3>2. RowsMove
      BY <1>2, <1>3, <1>8 DEF RowsMove
    <3>3. \A x \in q.holds : Active(x)'
      BY <1>3, <3>1 DEF Holds, LocksHold, Active
    <3>4. q.token \notin Rows'
      BY <1>3, <3>1 DEF Holds, LocksHold
    <3>5. q.op \in {"link", "complete"} /\ q.target # NoToken => t # q.target /\ u # q.target
      <4>1. q.op = "link" => q.user \in Users
        BY <3>1, ServingKinds DEF LinkCall
      <4>2. QED
        BY <1>1, <3>1, <4>1, CredentialsAssumption DEF Holds, EndHolds, Rows
    <3>6. LocksHold(q)' /\ RefreshHolds(q)' /\ EndHolds(q)'
      BY <1>3, <3>1, <3>2, <3>3, <3>4, <3>5, MovedHolds
    <3>7. MakerHolds(q)'
      <4>1. q.op \in Makers => q.user \in Users
        BY <3>1, ServingKinds DEF Makers, CreateCall, LinkCall
      <4>2. QED
        BY <1>2, <3>1, <4>1 DEF Holds, MakerHolds
    <3>8. AttemptHolds(q)'
      BY <3>1 DEF Holds, AttemptHolds, Started
    <3>9. QED
      BY <3>1, <3>6, <3>7, <3>8 DEF Holds
  <2>2. QED
    BY <1>1, <2>1, CallsUnchanged
<1>10. LoginTypes'
  BY <1>1, <1>2, <1>3, <1>7, <1>9 DEF LoginInv, LoginTypes
<1>11. AccountRows'
  BY <1>2, <1>3, <1>6, <1>7, <1>8, LoginRows DEF LoginInv, AccountRows
<1>12. GuestsHaveKeys'
  <2>1. \A x \in Keys : guestKeys[x] # NoRow => x # k /\ guestKeys[x].session \in Rows
    BY <1>6 DEF LoginInv, GuestsHaveKeys
  <2>2. QED
    BY <1>2, <1>3, <1>6, <1>7, <2>1 DEF LoginInv, GuestsHaveKeys
<1>13. IdentitiesAreBound' /\ AttemptsAreKept'
  BY <1>1, <1>2, LoginRows DEF LoginInv, IdentitiesAreBound, AttemptsAreKept, Started, Attempt
<1>14. CodesSignInOnce'
  <2>1. \A x \in Keys : guestKeys[x] # NoRow => guestKeys'[x] = guestKeys[x]
    BY <1>6, <1>7
  <2>2. QED
    BY <1>3, <1>6, <1>7, <2>1 DEF LoginInv, CodesSignInOnce, Started
<1>15. QED
  BY <1>3, <1>4, <1>9, <1>10, <1>11, <1>12, <1>13, <1>14 DEF LoginInv

\* Deactivating rows ends the active ones among them and changes nothing else.
LEMMA DeactivatedRows ==
  ASSUME LoginInv, NEW set, NEW at \in Time
  PROVE  /\ Deactivated(set, at) \in [Tokens -> SessionRow \cup {NoRow}]
         /\ \A o \in Tokens : Deactivated(set, at)[o] # NoRow <=> o \in Rows
         /\ \A o \in Rows :
              /\ Deactivated(set, at)[o].session = rows[o].session
              /\ Deactivated(set, at)[o].user = rows[o].user
              /\ Deactivated(set, at)[o].replacedBy = rows[o].replacedBy
              /\ Deactivated(set, at)[o].started = rows[o].started
              /\ Deactivated(set, at)[o].expires = rows[o].expires
              /\ Deactivated(set, at)[o].ended = Never <=> Active(o) /\ o \notin set
<1>1. at # Never
  BY TimesAssumption DEF Time
<1>2. ASSUME NEW o \in Tokens
      PROVE  /\ Deactivated(set, at)[o] \in SessionRow \cup {NoRow}
             /\ Deactivated(set, at)[o] # NoRow <=> o \in Rows
             /\ o \in Rows =>
                  /\ Deactivated(set, at)[o].session = rows[o].session
                  /\ Deactivated(set, at)[o].user = rows[o].user
                  /\ Deactivated(set, at)[o].replacedBy = rows[o].replacedBy
                  /\ Deactivated(set, at)[o].started = rows[o].started
                  /\ Deactivated(set, at)[o].expires = rows[o].expires
                  /\ Deactivated(set, at)[o].ended = Never <=> Active(o) /\ o \notin set
  <2>1. CASE o \in set /\ Active(o)
    <3>1. rows[o] \in SessionRow
      BY <2>1, LoginRows DEF Active
    <3>2. PICK row \in SessionRow : row = [rows[o] EXCEPT !.ended = at]
      BY <3>1 DEF SessionRow
    <3>3. /\ row.session = rows[o].session /\ row.user = rows[o].user
          /\ row.replacedBy = rows[o].replacedBy /\ row.started = rows[o].started
          /\ row.expires = rows[o].expires /\ row.ended = at
      BY <3>1, <3>2 DEF SessionRow
    <3>4. Deactivated(set, at)[o] = row
      BY <2>1, <3>2 DEF Deactivated
    <3>5. QED
      BY <1>1, <2>1, <3>2, <3>3, <3>4, LoginRows DEF Active
  <2>2. CASE ~ (o \in set /\ Active(o))
    <3>1. Deactivated(set, at)[o] = rows[o]
      BY <2>2 DEF Deactivated
    <3>2. QED
      BY <2>2, <3>1 DEF Active, Rows, LoginInv, LoginTypes
  <2>3. QED
    BY <2>1, <2>2
<1>3. DOMAIN Deactivated(set, at) = Tokens /\ Deactivated(set, at) = [o \in Tokens |-> Deactivated(set, at)[o]]
  BY DEF Deactivated
<1>4. Rows \subseteq Tokens
  BY DEF Rows
<1>5. QED
  BY <1>2, <1>3, <1>4

\* Rows that only end keep every session whole; the ended sessions answered
\* have no active row.
LEMMA RowsOnlyEnd ==
  ASSUME LoginInv, NEW set, NEW at \in Time, rows' = Deactivated(set, at),
         users' \in [Users -> User], \A x \in Users : users[x] # Nobody => users'[x] # Nobody
  PROVE  /\ rows' \in [Tokens -> SessionRow \cup {NoRow}] /\ Rows' = Rows
         /\ \A o \in Rows : /\ rows'[o].session = rows[o].session /\ rows'[o].user = rows[o].user
                            /\ rows'[o].started = rows[o].started /\ rows'[o].expires = rows[o].expires
                            /\ Active(o)' <=> Active(o) /\ o \notin set
         /\ RowsBelong' /\ ReplacedHaveNext' /\ OneActive'
<1>1. /\ rows' \in [Tokens -> SessionRow \cup {NoRow}] /\ Rows' = Rows
      /\ \A o \in Rows : /\ rows'[o].session = rows[o].session /\ rows'[o].user = rows[o].user
                         /\ rows'[o].started = rows[o].started /\ rows'[o].expires = rows[o].expires
                         /\ rows'[o].replacedBy = rows[o].replacedBy
                         /\ rows'[o].ended = Never <=> Active(o) /\ o \notin set
  BY DeactivatedRows DEF Rows
<1>2. \A o \in Rows : Active(o)' <=> Active(o) /\ o \notin set
  BY <1>1 DEF Active
<1>3. \A o \in Rows : rows[o].session \in Rows /\ rows[o].user \in Users
  BY LoginRows DEF LoginInv, RowsBelong, SessionRow
<1>4. RowsBelong'
  BY <1>1, <1>3 DEF LoginInv, RowsBelong
<1>5. ReplacedHaveNext' /\ OneActive'
  BY <1>1, <1>2 DEF LoginInv, ReplacedHaveNext, OneActive
<1>6. QED
  BY <1>1, <1>2, <1>4, <1>5

\* FinishUpdate of a sign-out: what it found active, and nobody holds, ends.
LEMMA SignOutUpdate ==
  ASSUME LoginInv, NEW c \in Calls, FinishUpdate(c), calls[c].op = "end",
         UNCHANGED <<attempts, bindings>>
  PROVE  LoginInv'
<1>1. /\ calls[c] # Free /\ Holds(calls[c]) /\ calls[c] \in EndCall /\ calls[c].at \in Time
      /\ \A d \in Calls \ {c} : calls[d] # Free => Apart(calls[c], calls[d])
  BY RequestsHold, ServingKinds
<1>2. PICK set : set = {t \in calls[c].seen : Active(t)}
  OBVIOUS
<1>3. rows' = Deactivated(set, calls[c].at) /\ UNCHANGED <<users, guestKeys, answered, now>>
  BY <1>2 DEF FinishUpdate
<1>4. /\ rows' \in [Tokens -> SessionRow \cup {NoRow}] /\ Rows' = Rows
      /\ \A o \in Rows : /\ rows'[o].session = rows[o].session /\ rows'[o].user = rows[o].user
                         /\ rows'[o].started = rows[o].started /\ rows'[o].expires = rows[o].expires
                         /\ Active(o)' <=> Active(o) /\ o \notin set
      /\ RowsBelong' /\ ReplacedHaveNext' /\ OneActive'
  BY <1>1, <1>3, RowsOnlyEnd DEF LoginInv, LoginTypes
<1>5. PICK r \in EndCall : r = [calls[c] EXCEPT !.step = "count", !.seen = {}]
  BY <1>1 DEF EndCall, Steps
<1>6. /\ r.op = "end" /\ r.target = calls[c].target /\ r.token = NoToken /\ r.holds = {}
  BY <1>1, <1>5 DEF EndCall
<1>7. calls' = [calls EXCEPT ![c] = r]
  BY <1>1, <1>5 DEF FinishUpdate, LoginInv, LoginTypes, EndCall
<1>8. CallsHold' /\ CallsAreApart' /\ DOMAIN calls' = Calls
  <2>1. ASSUME NEW q, Holds(q), q.holds \cap set = {}
        PROVE  Holds(q)'
    <3>1. RowsMove
      BY <1>3, <1>4 DEF RowsMove
    <3>2. (\A t \in q.holds : Active(t)') /\ q.token \notin Rows' /\ Rows' \ Rows = {}
      BY <1>4, <2>1 DEF Holds, LocksHold, Active
    <3>3. LocksHold(q)' /\ RefreshHolds(q)' /\ EndHolds(q)'
      BY <2>1, <3>1, <3>2, MovedHolds
    <3>4. MakerHolds(q)' /\ AttemptHolds(q)'
      BY <1>3, <2>1 DEF Holds, MakerHolds, AttemptHolds, Started
    <3>5. QED
      BY <2>1, <3>3, <3>4 DEF Holds
  <2>2. \A d \in Calls \ {c} : calls[d] # Free => calls[d].holds \cap set = {} /\ Holds(calls[d])
    BY <1>2, RequestsHold DEF FinishUpdate, HeldByOthers
  <2>3. Holds(r)
    BY <1>1, <1>5, <1>6, CredentialsAssumption
       DEF Holds, Serving, LocksHold, RefreshHolds, EndHolds, MakerHolds, AttemptHolds, Makers,
           Answering, Rows
  <2>4. \A d \in Calls \ {c} : calls[d] # Free => Apart(r, calls[d])
    BY <1>6 DEF Apart, Makers, Answering
  <2>5. QED
    BY <1>6, <1>7, <2>1, <2>2, <2>3, <2>4, CallsKept
<1>9. LoginTypes' /\ EndedStaysEnded'
  BY <1>3, <1>4, <1>8 DEF LoginInv, LoginTypes, EndedStaysEnded
<1>10. AccountRows' /\ GuestsHaveKeys' /\ IdentitiesAreBound' /\ AttemptsAreKept' /\ CodesSignInOnce'
  BY <1>3, <1>4 DEF LoginInv, AccountRows, GuestsHaveKeys, IdentitiesAreBound, AttemptsAreKept,
                    CodesSignInOnce, Started
<1>11. QED
  BY <1>4, <1>8, <1>9, <1>10 DEF LoginInv

\* CountActive of a sign-out: nothing of its session is left active.
LEMMA SignOutAnswered ==
  ASSUME LoginInv, NEW c \in Calls, CountActive(c), calls[c].op = "end", AfterCount(c) = "ended",
         UNCHANGED <<attempts, bindings>>
  PROVE  LoginInv'
<1>1. calls[c] # Free /\ Holds(calls[c]) /\ calls[c] \in EndCall
  BY RequestsHold, ServingKinds
<1>2. PICK target \in Rows : target = calls[c].target
  BY <1>1, CredentialsAssumption DEF Holds, EndHolds, EndCall
<1>3. \A t \in Rows : rows[t].session = target => ~ Active(t)
  BY <1>1, <1>2 DEF AfterCount, StillActive, Covered, EndCall
<1>4. /\ answered' = answered \cup {target} /\ calls' = [calls EXCEPT ![c] = Free]
      /\ UNCHANGED <<users, rows, guestKeys, now>>
  BY <1>2 DEF CountActive
<1>5. CallsHold' /\ CallsAreApart' /\ DOMAIN calls' = Calls
  <2>1. \A q : Holds(q) => Holds(q)'
    BY <1>4, HoldsKept
  <2>2. QED
    BY <1>4, <2>1, CallsKept, RequestsHold
<1>6. LoginTypes' /\ RowsBelong' /\ ReplacedHaveNext' /\ OneActive'
  BY <1>4, <1>5 DEF LoginInv, LoginTypes, RowsBelong, ReplacedHaveNext, OneActive, Active, Rows
<1>7. EndedStaysEnded'
  BY <1>3, <1>4 DEF LoginInv, EndedStaysEnded, Active, Rows
<1>8. AccountRows' /\ GuestsHaveKeys' /\ IdentitiesAreBound' /\ AttemptsAreKept' /\ CodesSignInOnce'
  BY <1>4 DEF LoginInv, AccountRows, GuestsHaveKeys, IdentitiesAreBound, AttemptsAreKept,
              CodesSignInOnce, Active, Rows, Started
<1>9. QED
  BY <1>5, <1>6, <1>7, <1>8 DEF LoginInv

\* CommitRotation: the held row ends and its successor goes on with its session.
LEMMA RotationStep ==
  ASSUME LoginInv, NEW c \in Calls, CommitRotation(c), UNCHANGED <<attempts, bindings>>
  PROVE  LoginInv'
<1>1. /\ calls[c] # Free /\ Holds(calls[c]) /\ calls[c] \in RefreshCall
      /\ \A d \in Calls \ {c} : calls[d] # Free => Apart(calls[c], calls[d])
  BY RequestsHold, ServingKinds DEF CommitRotation
<1>2. PICK p \in Rows, s \in Tokens \ Rows, at \in Time, level \in User :
        /\ p = calls[c].presented /\ s = calls[c].token /\ at = calls[c].at /\ level = calls[c].level
        /\ calls[c].holds = {p} /\ Active(p)
        /\ users[rows[p].user] = "account" => level = "account"
  <2>1. calls[c].presented \in Rows /\ calls[c].token # NoToken /\ calls[c].holds = {calls[c].presented}
    BY <1>1 DEF Holds, RefreshHolds, CommitRotation, RefreshCall
  <2>2. Active(calls[c].presented) /\ calls[c].token \notin Rows
    BY <1>1, <2>1 DEF Holds, LocksHold
  <2>3. QED
    BY <1>1, <2>1, <2>2 DEF Holds, RefreshHolds, RefreshCall
<1>3. /\ rows[p] \in SessionRow /\ p # s /\ rows[p].session \in Rows /\ rows[p].user \in Users
      /\ rows[p].started \in Time /\ at # Never
  BY <1>2, LoginRows, TimesAssumption DEF LoginInv, RowsBelong, SessionRow, Time
<1>4. PICK expires \in Nat :
        /\ expires = ExpiresAt(level, at, rows[p].started)
        /\ level = "account" => expires <= rows[p].started + AccountMaxLifetime
  <2>1. at \in Nat /\ rows[p].started \in Nat /\ AccountMaxLifetime \in Nat /\ AccountInactivity \in Nat /\ Never \in Nat
    BY <1>3, TimesAssumption DEF Time
  <2>2. QED
    BY <2>1 DEF ExpiresAt
<1>5. PICK old \in SessionRow : old = [rows[p] EXCEPT !.ended = at, !.replacedBy = s]
  BY <1>3 DEF SessionRow
<1>6. PICK new \in SessionRow : new = NewRow(rows[p].session, rows[p].user, at, rows[p].started, expires)
  BY <1>3 DEF NewRow, SessionRow, Rows
<1>7. /\ old.session = rows[p].session /\ old.user = rows[p].user /\ old.ended = at
      /\ old.replacedBy = s
      /\ new.session = rows[p].session /\ new.user = rows[p].user /\ new.ended = Never
      /\ new.replacedBy = NoToken /\ new.expires = expires /\ new.started = rows[p].started
      /\ old # NoRow /\ new # NoRow
  BY <1>3, <1>5, <1>6, LoginRows DEF NewRow, SessionRow
<1>8. rows' = [rows EXCEPT ![p] = old, ![s] = new]
  BY <1>2, <1>3, <1>4, <1>5, <1>6 DEF CommitRotation, RotateSession, LoginInv, LoginTypes
<1>9. /\ rows' \in [Tokens -> SessionRow \cup {NoRow}] /\ Rows' = Rows \cup {s}
      /\ rows'[p] = old /\ rows'[s] = new
      /\ \A o \in Rows \ {p} : rows'[o] = rows[o]
  BY <1>2, <1>3, <1>7, <1>8 DEF Rows, LoginInv, LoginTypes
<1>10. /\ Active(s)' /\ ~ Active(p)' /\ \A o \in Rows \ {p} : Active(o)' <=> Active(o)
  BY <1>3, <1>7, <1>9 DEF Active, Rows
<1>11. /\ calls' = [calls EXCEPT ![c] = Free] /\ UNCHANGED <<users, guestKeys, answered, now>>
  BY DEF CommitRotation
<1>12. CallsHold' /\ CallsAreApart' /\ DOMAIN calls' = Calls
  <2>1. ASSUME NEW d \in Calls \ {c}, NEW q, q = calls[d], q # Free
        PROVE  Holds(q)'
    <3>1. Holds(q) /\ p \notin q.holds /\ q.token # s
      BY <1>1, <1>2, <2>1, CredentialsAssumption, RequestsHold DEF Apart
    <3>2. RowsMove
      BY <1>7, <1>9, <1>10, <1>11 DEF RowsMove
    <3>3. (\A t \in q.holds : Active(t)') /\ q.token \notin Rows'
      BY <1>9, <1>10, <3>1 DEF Holds, LocksHold, Active
    <3>4. ASSUME q.op \in {"link", "complete"}, q.step = "ended", q.target # NoToken
          PROVE  rows[p].session # q.target /\ rows[p].user # q.target
      BY <1>2, <3>1, <3>4 DEF Holds, EndHolds, Covered
    <3>5. LocksHold(q)' /\ RefreshHolds(q)' /\ EndHolds(q)'
      BY <1>7, <1>9, <3>1, <3>2, <3>3, <3>4, MovedHolds
    <3>6. MakerHolds(q)' /\ AttemptHolds(q)'
      BY <1>11, <3>1 DEF Holds, MakerHolds, AttemptHolds, Started
    <3>7. QED
      BY <3>1, <3>5, <3>6 DEF Holds
  <2>2. QED
    BY <1>11, <2>1, CallsKept
<1>13. LoginTypes'
  BY <1>9, <1>11, <1>12 DEF LoginInv, LoginTypes
<1>14. RowsBelong' /\ ReplacedHaveNext'
  BY <1>3, <1>7, <1>9, <1>10, <1>11 DEF LoginInv, RowsBelong, ReplacedHaveNext
<1>15. OneActive'
  BY <1>2, <1>7, <1>9, <1>10 DEF LoginInv, OneActive
<1>16. EndedStaysEnded'
  BY <1>2, <1>7, <1>9, <1>10, <1>11 DEF LoginInv, EndedStaysEnded
<1>17. AccountRows'
  BY <1>2, <1>4, <1>7, <1>9, <1>10, <1>11 DEF LoginInv, AccountRows
<1>18. GuestsHaveKeys'
  BY <1>7, <1>9, <1>11 DEF LoginInv, GuestsHaveKeys
<1>19. IdentitiesAreBound' /\ AttemptsAreKept'
  BY <1>11 DEF LoginInv, IdentitiesAreBound, AttemptsAreKept, Started
<1>20. CodesSignInOnce'
  BY <1>3, <1>7, <1>9, <1>11 DEF LoginInv, CodesSignInOnce, Started, Rows
<1>21. QED
  BY <1>12, <1>13, <1>14, <1>15, <1>16, <1>17, <1>18, <1>19, <1>20 DEF LoginInv

\* CommitAccount: the User is the identity's account, and what they had as a
\* guest ends.
LEMMA AccountStep ==
  ASSUME LoginInv, NEW c \in Calls, CommitAccount(c)
  PROVE  LoginInv'
<1>1. /\ calls[c] # Free /\ Holds(calls[c]) /\ calls[c] \in LinkCall /\ calls[c].op \in Answering
      /\ \A d \in Calls \ {c} : calls[d] # Free => Apart(calls[c], calls[d])
  BY RequestsHold, ServingKinds DEF CommitAccount, Answering
<1>2. PICK u \in Users, i \in Identities, at \in Time, set \in SUBSET Tokens :
        /\ u = calls[c].user /\ i = calls[c].identity /\ at = calls[c].at /\ set = calls[c].holds
  BY <1>1 DEF LinkCall
<1>3. /\ users[u] # "account" /\ bindings[i] = NoUser
      /\ \A t \in set : Active(t)
      /\ \A t \in Rows : Active(t) /\ rows[t].user = u => t \in set
  <2>1. calls[c].step = "ended" /\ calls[c].target = u
    BY <1>1, <1>2 DEF CommitAccount, Holds, EndHolds, LinkCall
  <2>2. calls[c].step = "ended" /\ calls[c].target # NoToken => Covered(calls[c].target) \subseteq set
    BY <1>1, <1>2 DEF Holds, EndHolds, LinkCall
  <2>3. users[u] # "account" /\ bindings[i] = NoUser
    BY <1>1, <1>2 DEF Holds, MakerHolds, Makers, LinkCall
  <2>4. \A t \in set : Active(t)
    BY <1>1, <1>2 DEF Holds, LocksHold
  <2>5. QED
    BY <2>1, <2>2, <2>3, <2>4, CredentialsAssumption DEF Covered
<1>4. PICK a \in Attempts, row \in Attempt :
        /\ a = calls[c].attempt /\ IssueCode(c, u) = [attempts EXCEPT ![a] = row]
        /\ row.user = u /\ row.answered /\ row.opened = NoToken
        /\ Started(a) /\ attempts[a].opened = NoToken
        /\ \A d \in Calls \ {c} : calls[d] # Free /\ calls[d].op \in Answering \cup {"complete"} =>
             calls[d].attempt # a
  BY <1>1, CodeIssued
<1>5. /\ users' = [users EXCEPT ![u] = "account"] /\ bindings' = [bindings EXCEPT ![i] = u]
      /\ rows' = Deactivated(set, at) /\ answered' = answered \cup SessionsOf(set)
      /\ attempts' = [attempts EXCEPT ![a] = row] /\ calls' = [calls EXCEPT ![c] = Free]
      /\ UNCHANGED <<guestKeys, now>>
  BY <1>2, <1>4 DEF CommitAccount
<1>6. /\ users' \in [Users -> User] /\ users'[u] = "account"
      /\ \A x \in Users \ {u} : users'[x] = users[x]
      /\ "account" # Nobody
  BY <1>5, CredentialsAssumption DEF LoginInv, LoginTypes, User
<1>7. /\ rows' \in [Tokens -> SessionRow \cup {NoRow}] /\ Rows' = Rows
      /\ \A o \in Rows : /\ rows'[o].session = rows[o].session /\ rows'[o].user = rows[o].user
                         /\ rows'[o].started = rows[o].started /\ rows'[o].expires = rows[o].expires
                         /\ Active(o)' <=> Active(o) /\ o \notin set
      /\ RowsBelong' /\ ReplacedHaveNext' /\ OneActive'
  BY <1>5, <1>6, RowsOnlyEnd
<1>8. \A o \in Rows : rows[o].user \in Users /\ (Active(o)' => rows[o].user # u)
  BY <1>3, <1>7, LoginRows DEF SessionRow
<1>9. /\ bindings' \in [Identities -> Users \cup {NoUser}] /\ bindings'[i] = u
      /\ \A x \in Identities \ {i} : bindings'[x] = bindings[x]
  BY <1>5 DEF LoginInv, LoginTypes
<1>10. /\ attempts' \in [Attempts -> Attempt \cup {NoRow}] /\ attempts'[a] = row /\ row # NoRow
       /\ \A b \in Attempts \ {a} : attempts'[b] = attempts[b]
  BY <1>5, LoginRows DEF LoginInv, LoginTypes
<1>11. CallsHold' /\ CallsAreApart' /\ DOMAIN calls' = Calls
  <2>1. ASSUME NEW d \in Calls \ {c}, NEW q, q = calls[d], q # Free
        PROVE  Holds(q)'
    <3>1. Holds(q) /\ q \in Serving /\ Apart(calls[c], q)
      BY <1>1, <2>1, RequestsHold
    <3>2. RowsMove
      BY <1>6, <1>7, <1>8 DEF RowsMove
    <3>3. (\A t \in q.holds : Active(t)') /\ q.token \notin Rows' /\ Rows' \ Rows = {}
      BY <1>2, <1>7, <3>1 DEF Holds, LocksHold, Active, Apart
    <3>4. LocksHold(q)' /\ RefreshHolds(q)' /\ EndHolds(q)'
      BY <3>1, <3>2, <3>3, MovedHolds
    <3>5. MakerHolds(q)'
      <4>1. q.op \in Makers => q.user \in Users \ {u}
        BY <1>1, <1>2, <3>1, ServingKinds DEF Apart, Makers, LinkCall, CreateCall
      <4>2. q.op = "link" => q.identity \in Identities \ {i}
        BY <1>1, <1>2, <3>1, ServingKinds DEF Apart, LinkCall
      <4>3. QED
        BY <1>6, <1>9, <3>1, <4>1, <4>2 DEF Holds, MakerHolds
    <3>6. AttemptHolds(q)'
      <4>1. q.op \in Answering \cup {"complete"} => q.attempt \in Attempts \ {a}
        BY <1>4, <2>1, <3>1, ServingKinds DEF Answering, CallbackCall, CreateCall, LinkCall, CompleteCall
      <4>2. QED
        BY <1>10, <3>1, <4>1 DEF Holds, AttemptHolds, Started
    <3>7. QED
      BY <3>1, <3>4, <3>5, <3>6 DEF Holds
  <2>2. QED
    BY <1>5, <2>1, CallsKept
<1>12. SessionsOf(set) \subseteq Rows
  BY <1>3 DEF SessionsOf, LoginInv, RowsBelong, Active
<1>13. LoginTypes'
  BY <1>5, <1>6, <1>7, <1>9, <1>10, <1>11, <1>12 DEF LoginInv, LoginTypes
<1>14. EndedStaysEnded'
  <2>1. ASSUME NEW o \in Rows, rows[o].session \in answered', Active(o)'
        PROVE  FALSE
    <3>1. Active(o) /\ o \notin set
      BY <1>7, <2>1
    <3>2. rows[o].session \notin answered
      BY <3>1 DEF LoginInv, EndedStaysEnded
    <3>3. PICK t \in set : rows[t].session = rows[o].session
      BY <1>5, <2>1, <3>2 DEF SessionsOf
    <3>4. QED
      BY <1>3, <3>1, <3>3 DEF LoginInv, OneActive, Active
  <2>2. QED
    BY <1>7, <2>1 DEF EndedStaysEnded
<1>15. AccountRows'
  BY <1>5, <1>6, <1>7, <1>8 DEF LoginInv, AccountRows
<1>16. GuestsHaveKeys'
  BY <1>5, <1>6, <1>7 DEF LoginInv, GuestsHaveKeys
<1>17. IdentitiesAreBound'
  <2>1. \A x \in Identities : bindings[x] # u
    BY <1>3 DEF LoginInv, IdentitiesAreBound
  <2>2. \A x, y \in Identities : bindings'[x] = bindings'[y] /\ bindings'[x] # NoUser => x = y
    BY <1>9, <2>1 DEF LoginInv, IdentitiesAreBound
  <2>3. ASSUME NEW x \in Users
        PROVE  users'[x] = "account" <=> \E y \in Identities : bindings'[y] = x
    <3>1. CASE x = u
      BY <1>6, <1>9, <3>1
    <3>2. CASE x # u
      BY <1>3, <1>6, <1>9, <3>2, CredentialsAssumption DEF LoginInv, IdentitiesAreBound
    <3>3. QED
      BY <3>1, <3>2
  <2>4. QED
    BY <2>2, <2>3 DEF IdentitiesAreBound
<1>18. AttemptsAreKept'
  <2>1. ASSUME NEW b \in Attempts, attempts[b] # NoRow, attempts[b].user # NoUser
        PROVE  users'[attempts[b].user] = "account"
    <3>1. attempts[b].user \in Users
      BY <2>1, LoginRows DEF Started, Attempt
    <3>2. QED
      BY <1>6, <2>1, <3>1 DEF LoginInv, AttemptsAreKept, Started
  <2>2. ASSUME NEW b \in Attempts, attempts'[b] # NoRow
        PROVE  /\ attempts'[b].user # NoUser =>
                    attempts'[b].answered /\ users'[attempts'[b].user] = "account"
               /\ attempts'[b].opened # NoToken => attempts'[b].closed /\ attempts'[b].user # NoUser
    <3>1. CASE b = a
      BY <1>4, <1>6, <1>10, <3>1
    <3>2. CASE b # a
      BY <1>10, <2>1, <2>2, <3>2 DEF LoginInv, AttemptsAreKept, Started
    <3>3. QED
      BY <3>1, <3>2
  <2>3. QED
    BY <2>2 DEF AttemptsAreKept, Started
<1>19. CodesSignInOnce'
  <2>1. \A b \in Attempts, t \in Rows : attempts[b].opened = t => b # a
    BY <1>4, CredentialsAssumption DEF Rows
  <2>2. QED
    BY <1>5, <1>7, <1>10, <2>1 DEF LoginInv, CodesSignInOnce, Started
<1>20. QED
  BY <1>7, <1>11, <1>13, <1>14, <1>15, <1>16, <1>17, <1>18, <1>19 DEF LoginInv

\* CommitCompletion: the account's new session, opened by the code's attempt,
\* and the end of the one this client held.
LEMMA CompletionStep ==
  ASSUME LoginInv, NEW c \in Calls, CommitCompletion(c)
  PROVE  LoginInv'
<1>1. /\ calls[c] # Free /\ Holds(calls[c]) /\ calls[c] \in CompleteCall
      /\ \A d \in Calls \ {c} : calls[d] # Free => Apart(calls[c], calls[d])
  BY RequestsHold, ServingKinds DEF CommitCompletion
<1>2. PICK a \in Attempts, u \in Users, t \in Tokens, at \in Time, set \in SUBSET Tokens,
           target \in Tokens \cup {NoToken} :
        /\ a = calls[c].attempt /\ u = calls[c].user /\ t = calls[c].token /\ at = calls[c].at
        /\ set = calls[c].holds /\ target = calls[c].target
  BY <1>1 DEF CompleteCall
<1>3. /\ t \notin Rows /\ (target # NoToken => target \in Rows /\ Covered(target) \subseteq set)
      /\ Started(a) /\ attempts[a].user = u /\ ~ attempts[a].closed
  BY <1>1, <1>2 DEF Holds, LocksHold, EndHolds, AttemptHolds, CompleteCall, CommitCompletion
<1>4. /\ attempts[a] \in Attempt /\ attempts[a].answered /\ users[u] = "account"
      /\ attempts[a].opened = NoToken /\ u # NoUser
  BY <1>3, LoginRows, CredentialsAssumption DEF LoginInv, AttemptsAreKept
<1>5. PICK expires \in Nat :
        /\ expires = ExpiresAt("account", at, at) /\ expires <= at + AccountMaxLifetime
  <2>1. at \in Nat /\ AccountMaxLifetime \in Nat /\ AccountInactivity \in Nat
    BY TimesAssumption DEF Time
  <2>2. QED
    BY <2>1 DEF ExpiresAt
<1>6. PICK row \in Attempt : row = [attempts[a] EXCEPT !.closed = TRUE, !.opened = t]
  BY <1>4 DEF Attempt
<1>7. row.closed /\ row.opened = t /\ row.user = u /\ row.answered /\ row # NoRow
  BY <1>3, <1>4, <1>6, LoginRows DEF Attempt
<1>8. PICK kept : kept = Deactivated(set, at)
  OBVIOUS
<1>9. /\ rows' = [kept EXCEPT ![t] = NewRow(t, u, at, at, expires)]
      /\ attempts' = [attempts EXCEPT ![a] = row]
      /\ answered' = answered \cup ({target} \ {NoToken}) /\ calls' = [calls EXCEPT ![c] = Free]
      /\ UNCHANGED <<users, guestKeys, now, bindings>>
  BY <1>2, <1>5, <1>6, <1>8 DEF CommitCompletion, LoginInv, LoginTypes
<1>10. /\ kept \in [Tokens -> SessionRow \cup {NoRow}]
       /\ \A o \in Tokens : kept[o] # NoRow <=> o \in Rows
       /\ \A o \in Rows : /\ kept[o].session = rows[o].session /\ kept[o].user = rows[o].user
                          /\ kept[o].replacedBy = rows[o].replacedBy
                          /\ kept[o].started = rows[o].started /\ kept[o].expires = rows[o].expires
                          /\ kept[o].ended = Never <=> Active(o) /\ o \notin set
  BY <1>8, DeactivatedRows
<1>11. users' \in [Users -> User] /\ users'[u] # Nobody
  BY <1>4, <1>9, CredentialsAssumption DEF LoginInv, LoginTypes
<1>12. /\ rows' \in [Tokens -> SessionRow \cup {NoRow}] /\ Rows' = Rows \cup {t}
       /\ rows'[t].session = t /\ rows'[t].user = u /\ rows'[t].expires = expires
       /\ rows'[t].started = at
       /\ \A o \in Rows : rows'[o] = kept[o]
       /\ RowsBelong' /\ ReplacedHaveNext' /\ OneActive'
       /\ answered' \subseteq Rows /\ (\A o \in Rows : rows[o].session \in answered' => ~ Active(o)')
            => EndedStaysEnded'
  <2>1. Opens(kept, t, u, at, expires)
    BY <1>9, <1>10, <1>11 DEF Opens, Active
  <2>2. QED
    BY <1>3, <2>1, SessionOpens
<1>13. \A o \in Rows : Active(o)' <=> Active(o) /\ o \notin set
  BY <1>10, <1>12 DEF Active
<1>14. /\ attempts' \in [Attempts -> Attempt \cup {NoRow}] /\ attempts'[a] = row
       /\ \A b \in Attempts \ {a} : attempts'[b] = attempts[b]
  BY <1>9 DEF LoginInv, LoginTypes
<1>15. EndedStaysEnded'
  <2>1. answered' \subseteq Rows
    BY <1>3, <1>9 DEF LoginInv, LoginTypes
  <2>2. ASSUME NEW o \in Rows, rows[o].session \in answered', Active(o)'
        PROVE  FALSE
    <3>1. Active(o) /\ o \notin set
      BY <1>13, <2>2
    <3>2. rows[o].session = target /\ target # NoToken
      BY <1>9, <2>2, <3>1 DEF LoginInv, EndedStaysEnded
    <3>3. QED
      BY <1>3, <3>1, <3>2 DEF Covered
  <2>3. QED
    BY <1>12, <2>1, <2>2
<1>16. CallsHold' /\ CallsAreApart' /\ DOMAIN calls' = Calls
  <2>1. ASSUME NEW d \in Calls \ {c}, NEW q, q = calls[d], q # Free
        PROVE  Holds(q)'
    <3>1. Holds(q) /\ q \in Serving /\ Apart(calls[c], q)
      BY <1>1, <2>1, RequestsHold
    <3>2. RowsMove
      BY <1>9, <1>10, <1>12, <1>13 DEF RowsMove
    <3>3. (\A x \in q.holds : Active(x)') /\ q.token \notin Rows'
      BY <1>2, <1>12, <1>13, <3>1, CredentialsAssumption DEF Holds, LocksHold, Active, Apart
    <3>4. q.op \in {"link", "complete"} /\ q.target # NoToken => t # q.target /\ u # q.target
      <4>1. q.op = "link" => q.user \in Users /\ q.target = q.user /\ users[q.user] # "account"
        BY <3>1, ServingKinds DEF LinkCall, Holds, EndHolds, MakerHolds, Makers
      <4>2. q.op = "complete" /\ q.target # NoToken => q.target \in Rows
        BY <3>1 DEF Holds, EndHolds
      <4>3. QED
        BY <1>3, <1>4, <4>1, <4>2, CredentialsAssumption DEF Rows
    <3>5. LocksHold(q)' /\ RefreshHolds(q)' /\ EndHolds(q)'
      BY <1>12, <3>1, <3>2, <3>3, <3>4, MovedHolds
    <3>6. MakerHolds(q)'
      BY <1>9, <3>1 DEF Holds, MakerHolds
    <3>7. AttemptHolds(q)'
      <4>1. q.op \in Answering => q.attempt # a
        BY <1>3, <1>4, <3>1 DEF Holds, AttemptHolds
      <4>2. q.op = "complete" => q.attempt # a
        BY <1>1, <1>2, <3>1 DEF Apart, CompleteCall
      <4>3. q.op \in Answering \cup {"complete"} => q.attempt \in Attempts \ {a}
        BY <3>1, <4>1, <4>2, ServingKinds DEF Answering, CallbackCall, CreateCall, LinkCall, CompleteCall
      <4>4. QED
        BY <1>14, <3>1, <4>3 DEF Holds, AttemptHolds, Started
    <3>8. QED
      BY <3>1, <3>5, <3>6, <3>7 DEF Holds
  <2>2. QED
    BY <1>9, <2>1, CallsKept
<1>17. LoginTypes'
  BY <1>3, <1>9, <1>12, <1>14, <1>16 DEF LoginInv, LoginTypes
<1>18. AccountRows'
  <2>1. \A k \in Keys : guestKeys[k] # NoRow => guestKeys[k].session # t
    BY <1>3 DEF LoginInv, GuestsHaveKeys
  <2>2. QED
    BY <1>5, <1>9, <1>10, <1>12, <1>13, <2>1 DEF LoginInv, AccountRows
<1>19. GuestsHaveKeys'
  BY <1>9, <1>10, <1>12 DEF LoginInv, GuestsHaveKeys
<1>20. IdentitiesAreBound' /\ AttemptsAreKept'
  BY <1>4, <1>7, <1>9, <1>14 DEF LoginInv, IdentitiesAreBound, AttemptsAreKept, Started
<1>21. CodesSignInOnce'
  <2>1. \A b \in Attempts, o \in Rows : attempts[b].opened = o => b # a
    BY <1>4, CredentialsAssumption DEF Rows
  <2>2. QED
    BY <1>7, <1>9, <1>10, <1>12, <1>14, <2>1 DEF LoginInv, CodesSignInOnce, Started
<1>22. QED
  BY <1>12, <1>15, <1>16, <1>17, <1>18, <1>19, <1>20, <1>21 DEF LoginInv

-----------------------------------------------------------------------------
(* Theorems. *)

\* Nobody is signed in at first.
LEMMA LoginStart ==
  ASSUME Init
  PROVE  LoginInv
<1>1. Rows = {} /\ \A c \in Calls : calls[c] = Free
  BY DEF Init, CredentialsInit, Rows
<1>2. LoginTypes
  BY <1>1, TimesAssumption DEF Init, CredentialsInit, LoginTypes, User, Time
<1>3. RowsBelong /\ ReplacedHaveNext /\ OneActive /\ EndedStaysEnded /\ AccountRows /\ CodesSignInOnce
  BY <1>1 DEF RowsBelong, ReplacedHaveNext, OneActive, EndedStaysEnded, AccountRows, CodesSignInOnce
<1>4. GuestsHaveKeys /\ IdentitiesAreBound /\ AttemptsAreKept
  BY CredentialsAssumption DEF Init, CredentialsInit, GuestsHaveKeys, IdentitiesAreBound, AttemptsAreKept, Started
<1>5. QED
  BY <1>1, <1>2, <1>3, <1>4 DEF LoginInv, CallsHold, CallsAreApart

\* Every step of credentials and logins keeps the invariant.
LEMMA LoginStep ==
  ASSUME LoginInv, [Next]_vars
  PROVE  LoginInv'
<1>1. CASE (Tick /\ UNCHANGED <<attempts, bindings>>) \/ UNCHANGED vars
  <2>1. UNCHANGED <<users, rows, guestKeys, calls, answered, attempts, bindings>> /\ now' \in Time
    BY <1>1, TimesAssumption DEF Tick, vars, LoginInv, LoginTypes, Time
  <2>2. CallsHold' /\ CallsAreApart' /\ DOMAIN calls' = Calls
    BY <2>1, HoldsKept, CallsUnchanged, RequestsHold
  <2>3. LoginTypes' /\ RowsBelong' /\ ReplacedHaveNext' /\ OneActive' /\ EndedStaysEnded'
    BY <2>1, <2>2 DEF LoginInv, LoginTypes, RowsBelong, ReplacedHaveNext, OneActive, EndedStaysEnded, Active, Rows
  <2>4. AccountRows' /\ GuestsHaveKeys' /\ IdentitiesAreBound' /\ AttemptsAreKept' /\ CodesSignInOnce'
    BY <2>1 DEF LoginInv, AccountRows, GuestsHaveKeys, IdentitiesAreBound, AttemptsAreKept,
                CodesSignInOnce, Active, Rows, Started
  <2>5. QED
    BY <2>2, <2>3, <2>4 DEF LoginInv
<1>2. ASSUME NEW c \in Calls, Dies(c) \/ AnswerRefresh(c), UNCHANGED <<attempts, bindings>>
      PROVE  LoginInv'
  BY <1>2, RequestEnds DEF Dies, AnswerRefresh
<1>3. CASE CredentialsNext /\ UNCHANGED <<attempts, bindings>>
  BY <1>1, <1>2, <1>3, GuestStep, RequestBegins, RotationBegins, RotationStep, EndingStep, SignOutUpdate,
     SignOutAnswered DEF CredentialsNext
<1>4. ASSUME NEW c \in Calls, LoginSteps(c)
      PROVE  LoginInv'
  BY <1>4, AnswerStep, RejectStep, CompletionBegins, ResolveStep, AccountBegins, BindingStep, AccountStep,
     CompletionStep DEF LoginSteps
<1>5. QED
  BY <1>1, <1>3, <1>4, StartStep DEF Next

\* The invariant makes every session a chain that stays ended once answered.
LEMMA LoginInvKeepsSessions ==
  ASSUME LoginInv
  PROVE  SessionsHold
<1>1. ASSUME NEW t \in Rows, rows[t].replacedBy # NoToken
      PROVE  /\ ~ Active(t) /\ rows[t].replacedBy \in Rows
             /\ rows[rows[t].replacedBy].session = rows[t].session
             /\ rows[rows[t].replacedBy].user = rows[t].user
  BY <1>1 DEF LoginInv, ReplacedHaveNext, RowsBelong
<1>2. \A t, other \in Rows :
        rows[t].session = rows[other].session /\ t # other => ~ (Active(t) /\ Active(other))
  BY DEF LoginInv, OneActive
<1>3. QED
  BY <1>1, <1>2 DEF LoginInv, SessionsHold, SessionsAreChains

\* The invariant is what completing a login promises.
LEMMA LoginInvKeepsLogins ==
  ASSUME LoginInv
  PROVE  LoginsHold
<1>1. ASSUME NEW u \in Users
      PROVE  Cardinality({i \in Identities : bindings[i] = u}) = (IF users[u] = "account" THEN 1 ELSE 0)
  <2> DEFINE bound == {i \in Identities : bindings[i] = u}
  <2>1. CASE users[u] = "account"
    <3>1. PICK i \in Identities : bindings[i] = u
      BY <2>1 DEF LoginInv, IdentitiesAreBound
    <3>2. bound = {i}
      BY <3>1, CredentialsAssumption DEF LoginInv, IdentitiesAreBound
    <3>3. QED
      BY <2>1, <3>2, FS_Singleton
  <2>2. CASE users[u] # "account"
    <3>1. bound = {}
      BY <2>2 DEF LoginInv, IdentitiesAreBound
    <3>2. QED
      BY <2>2, <3>1, FS_EmptySet
  <2>3. QED
    BY <2>1, <2>2
<1>2. AccountsAreBound
  BY <1>1 DEF LoginInv, GuestsHaveKeys, AccountsAreBound
<1>3. ASSUME NEW k \in Keys, NEW name \in Names, guestKeys[k] # NoRow,
             ReplayGuest(k, name, now) = "replayed"
      PROVE  users[guestKeys[k].user] = "guest"
  <2>1. PICK t \in Rows : rows[t].session = guestKeys[k].session /\ Active(t)
    BY <1>3 DEF ReplayGuest
  <2>2. rows[t].user = guestKeys[k].user /\ users[rows[t].user] # Nobody
    BY <1>3, <2>1 DEF LoginInv, RowsBelong, GuestsHaveKeys
  <2>3. users[rows[t].user] # "account"
    BY <1>3, <2>1 DEF LoginInv, AccountRows
  <2>4. rows[t].user \in Users
    BY <2>1, LoginRows DEF SessionRow
  <2>5. QED
    BY <2>2, <2>3, <2>4 DEF LoginInv, LoginTypes, User
<1>4. QED
  BY <1>2, <1>3 DEF LoginInv, AccountRows, AccountSessionsExpire, LoginsHold

\* Every behaviour of Identity, whichever of its parts it exercises.
LEMMA LoginInvHolds == IdentitySpec => []LoginInv
<1>1. IdentityInit => LoginInv
  BY LoginStart DEF IdentityInit
<1>2. LoginInv /\ [IdentityNext]_identityVars => LoginInv'
  <2>1. [IdentityNext]_identityVars => [Next]_vars
    BY DEF IdentityNext, identityVars
  <2>2. QED
    BY <2>1, LoginStep
<1>3. QED
  BY <1>1, <1>2, PTL DEF IdentitySpec

\* SessionsHold (refreshInTx, endSession): whatever renewals, sign-outs and
\* logins run at once and wherever one is lost, a session has at most one
\* active token, each replaced token leads to the next of its session, and a
\* session somebody was answered has ended never has an active token again.
THEOREM SessionsStayEnded == IdentitySpec => []SessionsHold
  BY LoginInvHolds, LoginInvKeepsSessions, PTL

\* LoginsHold (resolveAccount, CompleteLogin): an account is of exactly one
\* identity, no account keeps a guest's never expiring session, and a code
\* signs in once.
THEOREM CodesOpenOneSession == IdentitySpec => []LoginsHold
  BY LoginInvHolds, LoginInvKeepsLogins, PTL

-----------------------------------------------------------------------------
(* AI applications' access. *)

\* The refresh tokens of a connection that were not used.
Unspent(q) ==
  {s \in AISecrets : /\ aiSecrets[s] # NoAIRow
                     /\ aiSecrets[s].connection = q
                     /\ ~ aiSecrets[s].used}

AITypes ==
  /\ aiClients \subseteq AIClients
  /\ aiRequests \in [AIRequests -> AIRequest \cup {NoAIRow}]
  /\ aiConnections \in [AIRequests -> AIConnection \cup {NoAIRow}]
  /\ aiSecrets \in [AISecrets -> AIRefreshToken \cup {NoAIRow}]
  /\ aiAccess \subseteq AIAccessToken
  /\ aiReused \subseteq AIRequests
  /\ aiTime \in Nat

\* A used code, which its User approved, opened a connection, and only it did.
CodesOpenConnections ==
  \A q \in AIRequests :
    /\ CodeKnown(q) => aiRequests[q].user \in AIUsers
    /\ aiRequests[q] # NoAIRow /\ ~ CodeKnown(q) => ~ aiRequests[q].used
    /\ CodeKnown(q) /\ aiRequests[q].used <=> Connected(q)
    /\ Connected(q) => aiConnections[q].user = aiRequests[q].user

\* A connection has one refresh token left, whatever became of it.
TokensAreOfConnections ==
  /\ \A s \in AISecrets : aiSecrets[s] # NoAIRow => Connected(aiSecrets[s].connection)
  /\ \A q \in AIRequests : Connected(q) => \E s \in AISecrets : Unspent(q) = {s}

ReusedAreRevoked == \A q \in aiReused : Connected(q) /\ ~ Live(q)

\* Inductive.
AIInv == AITypes /\ CodesOpenConnections /\ TokensAreOfConnections /\ ReusedAreRevoked

\* A row that is there is a record.
LEMMA AIRows ==
  ASSUME AIInv
  PROVE  /\ \A q \in AIRequests : aiRequests[q] # NoAIRow => aiRequests[q] \in AIRequest
         /\ \A q \in AIRequests : Connected(q) => aiConnections[q] \in AIConnection
         /\ \A s \in AISecrets : aiSecrets[s] # NoAIRow => aiSecrets[s] \in AIRefreshToken
         /\ \A row \in AIRequest \cup AIConnection \cup AIRefreshToken : row # NoAIRow
  BY AIAuthorizationAssumption DEF AIInv, AITypes, Connected

\* What a connection's holder is given.
LEMMA NewTokens ==
  ASSUME AIInv, NEW q \in AIRequests, NEW user \in AIUsers
  PROVE  NewRefreshToken(q) \in AIRefreshToken /\ Granted(q, user) \subseteq AIAccessToken
<1>1. aiTime \in Nat /\ RefreshLifetime \in Nat /\ AccessLifetime \in Nat /\ aiAccess \subseteq AIAccessToken
  BY AIAuthorizationAssumption DEF AIInv, AITypes
<1>2. NewRefreshToken(q) \in AIRefreshToken
  BY <1>1 DEF NewRefreshToken, AIRefreshToken
<1>3. [connection |-> q, user |-> user, expires |-> aiTime + AccessLifetime] \in AIAccessToken
  BY <1>1 DEF AIAccessToken
<1>4. QED
  BY <1>1, <1>2, <1>3 DEF Granted

\* StartAuthorization, DecideAuthorization: a request whose code is not used.
LEMMA AIRequestStep ==
  ASSUME AIInv, NEW q \in AIRequests, ~ (CodeKnown(q) /\ aiRequests[q].used),
         NEW row \in AIRequest, aiRequests' = [aiRequests EXCEPT ![q] = row],
         ~ row.used, row.decided = "approved" => row.user \in AIUsers,
         UNCHANGED <<aiClients, aiConnections, aiSecrets, aiAccess, aiReused, aiTime>>
  PROVE  AIInv'
<1>1. AITypes'
  BY DEF AIInv, AITypes
<1>2. row # NoAIRow
  BY AIRows
<1>3. CodesOpenConnections'
  BY <1>2 DEF AIInv, AITypes, CodesOpenConnections, CodeKnown, Connected
<1>4. TokensAreOfConnections' /\ ReusedAreRevoked'
  BY DEF AIInv, TokensAreOfConnections, ReusedAreRevoked, Connected, Unspent, Live
<1>5. QED
  BY <1>1, <1>3, <1>4 DEF AIInv

\* Revoking a connection is for good and changes nothing else of it.
LEMMA RevocationStep ==
  ASSUME AIInv, NEW q \in AIRequests, Connected(q),
         NEW why \in {"code_reuse", "refresh_reuse", "client", "user"},
         aiConnections' = Revoked(q, why), aiReused' \in {aiReused, aiReused \cup {q}},
         UNCHANGED <<aiClients, aiRequests, aiSecrets, aiAccess, aiTime>>
  PROVE  AIInv'
<1>1. aiConnections[q] \in AIConnection
  BY AIRows
<1>2. /\ aiConnections'[q] \in AIConnection /\ aiConnections'[q].user = aiConnections[q].user
      /\ aiConnections'[q].revoked # "no" /\ aiConnections'[q] # NoAIRow
      /\ \A p \in AIRequests \ {q} : aiConnections'[p] = aiConnections[p]
  BY <1>1, AIRows DEF Revoked, AIInv, AITypes, AIConnection
<1>3. AITypes'
  BY <1>1, <1>2 DEF AIInv, AITypes, Revoked
<1>4. CodesOpenConnections'
  BY <1>2 DEF AIInv, CodesOpenConnections, CodeKnown, Connected
<1>5. TokensAreOfConnections'
  <2>1. \A p \in AIRequests : Connected(p)' <=> Connected(p)
    BY <1>2 DEF Connected
  <2>2. \A p \in AIRequests : Unspent(p)' = Unspent(p)
    BY DEF Unspent
  <2>3. \A s \in AISecrets : aiSecrets[s] # NoAIRow => aiSecrets[s].connection \in AIRequests
    BY AIRows DEF AIRefreshToken
  <2>4. QED
    BY <2>1, <2>2, <2>3 DEF AIInv, TokensAreOfConnections
<1>6. ReusedAreRevoked'
  BY <1>2 DEF AIInv, AITypes, ReusedAreRevoked, Connected, Live
<1>7. QED
  BY <1>3, <1>4, <1>5, <1>6 DEF AIInv

\* ExchangeCode opens the code's one connection with its first token.
LEMMA ExchangeStep ==
  ASSUME AIInv, NEW q \in AIRequests, NEW s \in AISecrets, ExchangeCode(q, s)
  PROVE  AIInv'
<1>1. /\ aiRequests[q] \in AIRequest /\ aiRequests[q].user \in AIUsers /\ ~ Connected(q)
  BY AIRows DEF ExchangeCode, CodeKnown, AIInv, CodesOpenConnections
<1>2. /\ NewRefreshToken(q) \in AIRefreshToken
      /\ [user |-> aiRequests[q].user, client |-> aiRequests[q].client, revoked |-> "no"] \in AIConnection
      /\ [aiRequests[q] EXCEPT !.used = TRUE] \in AIRequest
      /\ Granted(q, aiRequests[q].user) \subseteq AIAccessToken
  <2>1. [aiRequests[q] EXCEPT !.used = TRUE] \in AIRequest
    BY <1>1 DEF AIRequest
  <2>2. [user |-> aiRequests[q].user, client |-> aiRequests[q].client, revoked |-> "no"] \in AIConnection
    BY <1>1 DEF AIRequest, AIConnection
  <2>3. QED
    BY <1>1, <2>1, <2>2, NewTokens
<1>3. AITypes'
  BY <1>1, <1>2 DEF AIInv, AITypes, ExchangeCode
<1>4. /\ aiRequests'[q].used /\ aiRequests'[q].decided = "approved" /\ aiRequests'[q] # NoAIRow
      /\ aiRequests'[q].user = aiRequests[q].user
      /\ aiConnections'[q] # NoAIRow /\ aiConnections'[q].user = aiRequests[q].user
      /\ \A p \in AIRequests \ {q} : /\ aiRequests'[p] = aiRequests[p]
                                     /\ aiConnections'[p] = aiConnections[p]
  BY <1>1, <1>2, AIRows DEF ExchangeCode, CodeKnown, AIInv, AITypes, AIRequest
<1>5. CodesOpenConnections'
  BY <1>1, <1>4 DEF AIInv, CodesOpenConnections, CodeKnown, Connected
<1>6. TokensAreOfConnections'
  <2>1. /\ aiSecrets'[s].connection = q /\ ~ aiSecrets'[s].used /\ aiSecrets'[s] # NoAIRow
        /\ \A t \in AISecrets \ {s} : aiSecrets'[t] = aiSecrets[t]
    BY <1>2, AIRows DEF ExchangeCode, AIInv, AITypes, NewRefreshToken
  <2>2. \A t \in AISecrets : aiSecrets[t] # NoAIRow => /\ aiSecrets[t].connection \in AIRequests \ {q}
                                                       /\ Connected(aiSecrets[t].connection)
    BY <1>1, AIRows DEF AIInv, TokensAreOfConnections, AIRefreshToken
  <2>3. Unspent(q)' = {s}
    BY <2>1, <2>2 DEF Unspent
  <2>4. \A p \in AIRequests \ {q} : Unspent(p)' = Unspent(p)
    BY <2>1 DEF Unspent, ExchangeCode
  <2>5. \A p \in AIRequests : Connected(p)' <=> Connected(p) \/ p = q
    BY <1>4 DEF Connected
  <2>6. \A t \in AISecrets : aiSecrets'[t] # NoAIRow => aiConnections'[aiSecrets'[t].connection] # NoAIRow
    BY <1>4, <2>1, <2>2 DEF Connected
  <2>7. QED
    BY <2>3, <2>4, <2>5, <2>6 DEF AIInv, TokensAreOfConnections, Connected
<1>7. ReusedAreRevoked'
  BY <1>1, <1>4 DEF AIInv, AITypes, ReusedAreRevoked, Connected, Live, ExchangeCode
<1>8. QED
  BY <1>3, <1>5, <1>6, <1>7 DEF AIInv

\* RefreshAI spends a connection's token and gives it the next one.
LEMMA RefreshStep ==
  ASSUME AIInv, NEW s \in AISecrets, NEW next \in AISecrets, RefreshAI(s, next)
  PROVE  AIInv'
<1>1. PICK q \in AIRequests : q = aiSecrets[s].connection
  BY AIRows DEF RefreshAI, Honoured, AIRefreshToken
<1>2. /\ aiSecrets[s] \in AIRefreshToken /\ aiConnections[q] \in AIConnection /\ s # next
      /\ Connected(q)
  BY <1>1, AIRows DEF RefreshAI, Honoured, Live
<1>3. /\ NewRefreshToken(q) \in AIRefreshToken
      /\ [aiSecrets[s] EXCEPT !.used = TRUE] \in AIRefreshToken
      /\ Granted(q, aiConnections[q].user) \subseteq AIAccessToken
  <2>1. [aiSecrets[s] EXCEPT !.used = TRUE] \in AIRefreshToken
    BY <1>2 DEF AIRefreshToken
  <2>2. aiConnections[q].user \in AIUsers
    BY <1>2 DEF AIConnection
  <2>3. QED
    BY <2>1, <2>2, NewTokens
<1>4. AITypes'
  BY <1>1, <1>2, <1>3 DEF AIInv, AITypes, RefreshAI
<1>5. CodesOpenConnections' /\ ReusedAreRevoked'
  BY DEF AIInv, CodesOpenConnections, CodeKnown, Connected, RefreshAI, ReusedAreRevoked, Live
<1>6. TokensAreOfConnections'
  <2>1. /\ aiSecrets'[next].connection = q /\ ~ aiSecrets'[next].used /\ aiSecrets'[next] # NoAIRow
        /\ aiSecrets'[s].connection = q /\ aiSecrets'[s].used
        /\ \A t \in AISecrets \ {s, next} : aiSecrets'[t] = aiSecrets[t]
    BY <1>1, <1>2, <1>3, AIRows DEF RefreshAI, AIInv, AITypes, NewRefreshToken, AIRefreshToken
  <2>2. Unspent(q) = {s}
    <3>1. s \in Unspent(q)
      BY <1>1, <1>2, AIRows DEF Unspent, RefreshAI
    <3>2. QED
      BY <1>2, <3>1 DEF AIInv, TokensAreOfConnections
  <2>3. Unspent(q)' = {next}
    BY <2>1, <2>2 DEF Unspent
  <2>4. aiSecrets[next] = NoAIRow
    BY DEF RefreshAI
  <2>5. \A p \in AIRequests \ {q} : Unspent(p)' = Unspent(p)
    BY <1>1, <2>1, <2>4 DEF Unspent
  <2>6. \A t \in AISecrets : aiSecrets'[t] # NoAIRow => Connected(aiSecrets'[t].connection)
    BY <1>2, <2>1 DEF AIInv, TokensAreOfConnections
  <2>7. aiConnections' = aiConnections
    BY DEF RefreshAI
  <2>8. QED
    BY <2>3, <2>5, <2>6, <2>7 DEF AIInv, TokensAreOfConnections, Connected
<1>7. QED
  BY <1>4, <1>5, <1>6 DEF AIInv

\* Every step of AI authorization keeps the invariant.
LEMMA AIStep ==
  ASSUME AIInv, [AINext]_aiVars
  PROVE  AIInv'
<1>1. CASE AITick \/ (\E client \in AIClients : RegisterClient(client)) \/ UNCHANGED aiVars
  <2>1. AITypes'
    BY <1>1 DEF AIInv, AITypes, AITick, RegisterClient, aiVars
  <2>2. UNCHANGED <<aiRequests, aiConnections, aiSecrets, aiReused>>
    BY <1>1 DEF AITick, RegisterClient, aiVars
  <2>3. QED
    BY <2>1, <2>2 DEF AIInv, CodesOpenConnections, TokensAreOfConnections, ReusedAreRevoked,
                      CodeKnown, Connected, Live, Unspent
<1>2. ASSUME NEW q \in AIRequests, NEW client \in AIClients, NEW redirects \in BOOLEAN,
             NEW wellFormed \in BOOLEAN, StartAuthorization(q, client, redirects, wellFormed)
      PROVE  AIInv'
  <2> DEFINE row == [client |-> client, expires |-> aiTime + RequestLifetime, decided |-> "no",
                     user |-> NoAIRow, codeExpires |-> 0, used |-> FALSE]
  <2>1. row \in AIRequest /\ row.decided # "approved"
    BY AIAuthorizationAssumption DEF AIRequest, AIInv, AITypes
  <2>2. ~ CodeKnown(q)
    BY <1>2 DEF StartAuthorization, CodeKnown
  <2>3. QED
    BY <1>2, <2>1, <2>2, AIRequestStep DEF StartAuthorization
<1>3. ASSUME NEW q \in AIRequests, NEW user \in AIUsers, NEW approve \in BOOLEAN,
             DecideAuthorization(q, user, approve)
      PROVE  AIInv'
  <2>1. aiRequests[q] \in AIRequest /\ ~ CodeKnown(q)
    BY <1>3, AIRows DEF DecideAuthorization, Pending, CodeKnown
  <2>2. ~ aiRequests[q].used
    BY <1>3, <2>1 DEF AIInv, CodesOpenConnections, DecideAuthorization, Pending
  <2>3. PICK decided \in {"approved", "denied"}, expires \in Nat :
          aiRequests' = [aiRequests EXCEPT ![q].decided = decided, ![q].user = user,
                                           ![q].codeExpires = expires]
    <3>1. aiTime + AICodeLifetime \in Nat
      BY AIAuthorizationAssumption DEF AIInv, AITypes
    <3>2. CASE approve
      BY <1>3, <3>1, <3>2 DEF DecideAuthorization
    <3>3. CASE ~ approve
      BY <1>3, <3>3 DEF DecideAuthorization
    <3>4. QED
      BY <3>2, <3>3
  <2> DEFINE row == [aiRequests[q] EXCEPT !.decided = decided, !.user = user, !.codeExpires = expires]
  <2>4. row \in AIRequest /\ ~ row.used /\ row.user \in AIUsers
    BY <2>1, <2>2 DEF AIRequest
  <2>5. aiRequests' = [aiRequests EXCEPT ![q] = row]
    BY <2>3 DEF AIInv, AITypes
  <2>6. QED
    BY <1>3, <2>1, <2>4, <2>5, AIRequestStep DEF DecideAuthorization
<1>4. ASSUME NEW q \in AIRequests, ExchangeUsedCode(q)
      PROVE  AIInv'
  <2>1. Connected(q)
    BY <1>4 DEF ExchangeUsedCode, AIInv, CodesOpenConnections
  <2>2. QED
    BY <1>4, <2>1, RevocationStep DEF ExchangeUsedCode, ReuseOf
<1>5. ASSUME NEW q \in AIRequests, RevokeByClient(q) \/ (\E user \in AIUsers : RevokeConnection(q, user))
      PROVE  AIInv'
  BY <1>5, RevocationStep DEF RevokeByClient, RevokeConnection, Live
<1>6. ASSUME NEW s \in AISecrets, RefreshUsed(s)
      PROVE  AIInv'
  <2>1. aiSecrets[s].connection \in AIRequests /\ Connected(aiSecrets[s].connection)
    BY <1>6, AIRows DEF RefreshUsed, Honoured, Live, AIRefreshToken
  <2>2. QED
    BY <1>6, <2>1, RevocationStep DEF RefreshUsed, ReuseOf
<1>7. QED
  BY <1>1, <1>2, <1>3, <1>4, <1>5, <1>6, ExchangeStep, RefreshStep DEF AINext

\* The invariant is what ConnectionsHold promises, and why.
LEMMA AIInvHolds ==
  ASSUME AIInv
  PROVE  ConnectionsHold
<1>1. AITypeOK
  BY DEF AIInv, AITypes, AITypeOK
<1>2. ReuseRevokes
  BY DEF AIInv, AITypes, ReusedAreRevoked, ReuseRevokes, Verifies, Honoured, ListConnections
<1>3. ASSUME NEW q \in AIRequests, Live(q)
      PROVE  /\ aiRequests[q].decided = "approved" /\ aiRequests[q].used
             /\ aiConnections[q].user = aiRequests[q].user
             /\ Cardinality(Unspent(q)) = 1
  <2>1. PICK s \in AISecrets : Unspent(q) = {s}
    BY <1>3 DEF AIInv, TokensAreOfConnections, Live
  <2>2. QED
    BY <1>3, <2>1, FS_Singleton DEF AIInv, CodesOpenConnections, CodeKnown, Live
<1>4. QED
  BY <1>1, <1>2, <1>3 DEF ConnectionsHold, OneHolder, Unspent

\* Nothing is registered, asked for or granted at first.
LEMMA AIStart ==
  ASSUME AIInit
  PROVE  AIInv
  BY DEF AIInit, AIInv, AITypes, CodesOpenConnections, TokensAreOfConnections,
         ReusedAreRevoked, CodeKnown, Connected

\* ConnectionsHold (ExchangeToken and RevokeSession of aiauthorization): a
\* connection whose code or refresh token was presented twice is revoked for
\* good, with everything it granted, and a live one has exactly one refresh
\* token left and acts for the User who approved it.
THEOREM ConnectionsAreHeldOnce == IdentitySpec => []ConnectionsHold
<1>1. IdentityInit => AIInv
  BY AIStart DEF IdentityInit
<1>2. AIInv /\ [IdentityNext]_identityVars => AIInv'
  <2>1. [IdentityNext]_identityVars => [AINext]_aiVars
    BY DEF IdentityNext, identityVars
  <2>2. QED
    BY <2>1, AIStep
<1>3. AIInv => ConnectionsHold
  BY AIInvHolds
<1>4. QED
  BY <1>1, <1>2, <1>3, PTL DEF IdentitySpec

-----------------------------------------------------------------------------
(* What Users keep: display names and resource links. *)

RenameWrite ==
  [op : {"rename"}, owner : Owners, from : DisplayNames \cup {NoName}, to : DisplayNames]

LinkWrite ==
  [op : {"create", "revoke"}, owner : Owners, resource : Resources, open : SUBSET LinkTokens]

RecordTypes ==
  /\ displayName \in [Owners -> DisplayNames \cup {NoName}]
  /\ nameChanges \in [Owners -> Seq(NameChange)]
  /\ links \in [LinkTokens -> Link \cup {NoLink}]
  /\ writers \in [Writers -> RenameWrite \cup LinkWrite \cup {NotWriting}]
  /\ linkTime \in Nat

Writing(w) == writers[w].op # "none"

\* The User's row is held by one writer.
OneWriterEach ==
  \A v, w \in Writers :
    Writing(v) /\ Writing(w) /\ writers[v].owner = writers[w].owner => v = w

\* What the writer read before its commit still holds.
ReadIsCurrent(w) ==
  /\ writers[w].op = "rename" => writers[w].from = displayName[writers[w].owner]
  /\ writers[w].op \in {"create", "revoke"} =>
       writers[w].open = OpenLinks(writers[w].owner, writers[w].resource)

OneOpenLink ==
  \A u \in Owners, r \in Resources : \A s, t \in OpenLinks(u, r) : s = t

\* The name the first n changes of a history lead to.
NameAfter(history, n) == IF n = 0 THEN NoName ELSE history[n].to

HistoryLeadsTo(name, history) ==
  /\ name = NameAfter(history, Len(history))
  /\ \A k \in 1..Len(history) : history[k].from = NameAfter(history, k - 1)

\* Inductive.
RecordsInv ==
  /\ RecordTypes /\ OneWriterEach /\ OneOpenLink
  /\ \A w \in Writers : ReadIsCurrent(w)
  /\ \A u \in Owners : HistoryLeadsTo(displayName[u], nameChanges[u])

\* A link that is there is a record.
LEMMA LinkRows ==
  ASSUME RecordsInv
  PROVE  /\ \A t \in Links : links[t] \in Link
         /\ \A link \in Link : link # NoLink
  BY UserRecordsAssumption DEF RecordsInv, RecordTypes, Links

\* A change added to a history starts from the name it led to, and gives the next.
LEMMA HistoryGrows ==
  ASSUME NEW name \in DisplayNames \cup {NoName}, NEW history \in Seq(NameChange), NEW to \in DisplayNames,
         HistoryLeadsTo(name, history)
  PROVE  /\ Append(history, [from |-> name, to |-> to]) \in Seq(NameChange)
         /\ HistoryLeadsTo(to, Append(history, [from |-> name, to |-> to]))
<1> DEFINE change == [from |-> name, to |-> to]
           grown == Append(history, change)
<1>1. change \in NameChange /\ change.from = name /\ change.to = to
  BY DEF NameChange
<1> HIDE DEF change
<1>2. /\ grown \in Seq(NameChange) /\ Len(grown) = Len(history) + 1 /\ Len(history) \in Nat
      /\ grown[Len(history) + 1] = change
      /\ \A k \in 1..Len(history) : grown[k] = history[k]
  BY <1>1
<1> HIDE DEF grown
<1>3. NameAfter(grown, Len(grown)) = to
  BY <1>1, <1>2 DEF NameAfter
<1>4. ASSUME NEW k \in 1..Len(grown)
      PROVE  grown[k].from = NameAfter(grown, k - 1)
  <2>1. CASE k = Len(history) + 1
    BY <1>1, <1>2, <2>1 DEF HistoryLeadsTo, NameAfter
  <2>2. CASE k \in 1..Len(history)
    BY <1>2, <2>2 DEF HistoryLeadsTo, NameAfter
  <2>3. QED
    BY <1>2, <2>1, <2>2
<1>5. QED
  BY <1>2, <1>3, <1>4 DEF HistoryLeadsTo, grown, change

\* A writer begins with what it reads under the User's lock.
LEMMA WriterBegins ==
  ASSUME RecordsInv, NEW w \in Writers, NEW u \in Owners, ~ Writing(w), LockUser(u),
         NEW write \in RenameWrite \cup LinkWrite, write.owner = u,
         writers' = [writers EXCEPT ![w] = write],
         write.op = "rename" => write.from = displayName[u],
         write.op \in {"create", "revoke"} => write.open = OpenLinks(u, write.resource),
         UNCHANGED <<displayName, nameChanges, links, linkTime>>
  PROVE  RecordsInv'
<1>1. /\ writers'[w] = write
      /\ \A v \in Writers \ {w} : writers'[v] = writers[v]
  BY DEF RecordsInv, RecordTypes
<1>2. RecordTypes'
  BY DEF RecordsInv, RecordTypes
<1>3. OneWriterEach'
  BY <1>1 DEF RecordsInv, OneWriterEach, Writing, LockUser
<1>4. \A x, r : OpenLinks(x, r)' = OpenLinks(x, r)
  BY DEF OpenLinks, Links
<1>5. OneOpenLink'
  BY <1>4 DEF RecordsInv, OneOpenLink
<1>6. ASSUME NEW v \in Writers
      PROVE  ReadIsCurrent(v)'
  BY <1>1 DEF RecordsInv, ReadIsCurrent, OpenLinks, Links
<1>7. \A x \in Owners : HistoryLeadsTo(displayName[x], nameChanges[x])'
  BY DEF RecordsInv, HistoryLeadsTo, NameAfter
<1>8. QED
  BY <1>2, <1>3, <1>5, <1>6, <1>7 DEF RecordsInv

\* A writer that ends leaves each owner one writer, and the others another owner.
LEMMA WriterEnds ==
  ASSUME RecordsInv, NEW w \in Writers, Writing(w), writers' = [writers EXCEPT ![w] = NotWriting]
  PROVE  /\ writers' \in [Writers -> RenameWrite \cup LinkWrite \cup {NotWriting}]
         /\ OneWriterEach'
         /\ writers'[w] = NotWriting
         /\ \A v \in Writers \ {w} :
              /\ writers'[v] = writers[v]
              /\ Writing(v) => writers[v].owner # writers[w].owner
<1>1. /\ writers' \in [Writers -> RenameWrite \cup LinkWrite \cup {NotWriting}]
      /\ writers'[w] = NotWriting
      /\ \A v \in Writers \ {w} : writers'[v] = writers[v]
  BY DEF RecordsInv, RecordTypes
<1>2. OneWriterEach'
  BY <1>1 DEF RecordsInv, OneWriterEach, Writing, NotWriting
<1>3. QED
  BY <1>1, <1>2 DEF RecordsInv, OneWriterEach

\* ChangeDisplayName writes the name and its change from the name it read.
LEMMA RenameStep ==
  ASSUME RecordsInv, NEW w \in Writers, ChangeDisplayName(w)
  PROVE  RecordsInv'
<1>1. writers[w] \in RenameWrite
  <2>1. writers[w] \in RenameWrite \cup LinkWrite \cup {NotWriting}
    BY DEF RecordsInv, RecordTypes
  <2>2. writers[w].op = "rename"
    BY DEF ChangeDisplayName
  <2>3. \A write \in LinkWrite : write.op # "rename"
    BY DEF LinkWrite
  <2>4. NotWriting.op # "rename"
    BY DEF NotWriting
  <2>5. QED
    BY <2>1, <2>2, <2>3, <2>4
<1>2. PICK u \in Owners, name \in DisplayNames :
        u = writers[w].owner /\ name = writers[w].to /\ writers[w].from = displayName[u]
  BY <1>1 DEF ChangeDisplayName, RecordsInv, ReadIsCurrent, RenameWrite
<1>3. PICK grown : grown = Append(nameChanges[u], [from |-> displayName[u], to |-> name])
  OBVIOUS
<1>4. /\ displayName' = [displayName EXCEPT ![u] = name]
      /\ nameChanges' = [nameChanges EXCEPT ![u] = grown]
      /\ writers' = [writers EXCEPT ![w] = NotWriting] /\ Writing(w)
      /\ UNCHANGED <<links, linkTime>>
  BY <1>2, <1>3 DEF ChangeDisplayName, Writing
<1>5. grown \in Seq(NameChange) /\ HistoryLeadsTo(name, grown)
  BY <1>3, HistoryGrows DEF RecordsInv, RecordTypes
<1>6. RecordTypes'
  <2>1. writers' \in [Writers -> RenameWrite \cup LinkWrite \cup {NotWriting}]
    BY <1>4, WriterEnds
  <2>2. QED
    BY <1>4, <1>5, <2>1 DEF RecordsInv, RecordTypes
<1>7. ASSUME NEW v \in Writers
      PROVE  ReadIsCurrent(v)'
  <2>1. CASE ~ Writing(v) \/ v = w
    BY <1>4, <2>1, WriterEnds DEF ReadIsCurrent, Writing, NotWriting
  <2>2. CASE Writing(v) /\ v # w
    <3>1. writers'[v] = writers[v] /\ writers[v].owner # u
      BY <1>2, <1>4, <2>2, WriterEnds
    <3>2. writers[v].owner \in Owners
      BY <2>2 DEF RecordsInv, RecordTypes, RenameWrite, LinkWrite, NotWriting, Writing
    <3>3. displayName'[writers[v].owner] = displayName[writers[v].owner]
      BY <1>4, <3>1, <3>2 DEF RecordsInv, RecordTypes
    <3>4. QED
      BY <1>4, <3>1, <3>3 DEF RecordsInv, ReadIsCurrent, OpenLinks, Links
  <2>3. QED
    BY <2>1, <2>2
<1>8. OneOpenLink'
  BY DEF ChangeDisplayName, RecordsInv, OneOpenLink, OpenLinks, Links
<1>9. ASSUME NEW x \in Owners
      PROVE  HistoryLeadsTo(displayName'[x], nameChanges'[x])
  <2>1. CASE x = u
    BY <1>4, <1>5, <2>1 DEF RecordsInv, RecordTypes
  <2>2. CASE x # u
    BY <1>4, <2>2 DEF RecordsInv, RecordTypes
  <2>3. QED
    BY <2>1, <2>2
<1>10. \A x \in Owners : HistoryLeadsTo(displayName[x], nameChanges[x])'
  BY <1>9 DEF HistoryLeadsTo, NameAfter
<1>11. QED
  BY <1>4, <1>6, <1>7, <1>8, <1>10, WriterEnds DEF RecordsInv

\* What CreateLink and RevokeOpenLink commit: the links of one owner and
\* resource, and at most one new of them.
LinkCommit(w, u, r, new) ==
  /\ writers[w] \in LinkWrite /\ writers[w].owner = u /\ writers[w].resource = r
  /\ \A s, t \in new : s = t
  /\ links' \in [LinkTokens -> Link \cup {NoLink}]
  /\ \A t \in new : /\ t \notin Links /\ links'[t] \in Link
                    /\ links'[t].owner = u /\ links'[t].resource = r
  /\ \A t \in LinkTokens \ new : links'[t] = AllRevoked(OpenLinks(u, r))[t]
  /\ writers' = [writers EXCEPT ![w] = NotWriting]
  /\ UNCHANGED <<displayName, nameChanges, linkTime>>

\* Such a commit leaves at most the new link open.
LEMMA LinkStep ==
  ASSUME RecordsInv, NEW w \in Writers, NEW u \in Owners, NEW r \in Resources,
         NEW new \in SUBSET LinkTokens, LinkCommit(w, u, r, new)
  PROVE  RecordsInv'
<1> USE DEF LinkCommit
<1>1. Writing(w)
  BY DEF Writing, LinkWrite
<1>2. \A t \in OpenLinks(u, r) : t \in Links /\ links[t] \in Link
  BY LinkRows DEF OpenLinks
<1>3. \A t \in LinkTokens \ new :
        /\ t \notin OpenLinks(u, r) => links'[t] = links[t]
        /\ t \in OpenLinks(u, r) => links'[t] = [links[t] EXCEPT !.revoked = TRUE]
  BY DEF AllRevoked
<1>4. OpenLinks(u, r)' \subseteq new
  BY <1>2, <1>3 DEF OpenLinks, Links, Link
<1>5. ASSUME NEW x \in Owners, NEW z \in Resources, x # u \/ z # r
      PROVE  OpenLinks(x, z)' = OpenLinks(x, z)
  <2>1. \A t \in LinkTokens \ new : t \in OpenLinks(x, z)' <=> t \in OpenLinks(x, z)
    BY <1>2, <1>3, <1>5 DEF OpenLinks, Links, Link
  <2>2. \A t \in new : t \notin OpenLinks(x, z)' /\ t \notin OpenLinks(x, z)
    BY <1>5 DEF OpenLinks, Links
  <2>3. QED
    BY <2>1, <2>2 DEF OpenLinks, Links
<1>6. RecordTypes'
  BY <1>1, WriterEnds DEF RecordsInv, RecordTypes
<1>7. ASSUME NEW v \in Writers
      PROVE  ReadIsCurrent(v)'
  <2>1. CASE v = w
    BY <1>1, <2>1, WriterEnds DEF ReadIsCurrent, NotWriting
  <2>2. CASE v # w /\ Writing(v)
    <3>1. writers'[v] = writers[v] /\ writers[v].owner # u
      BY <1>1, <2>2, WriterEnds
    <3>2. CASE writers[v] \in RenameWrite
      BY <3>1, <3>2 DEF RecordsInv, ReadIsCurrent, RenameWrite
    <3>3. CASE writers[v] \in LinkWrite
      <4>1. PICK x \in Owners, z \in Resources : x = writers[v].owner /\ z = writers[v].resource
        BY <3>3 DEF LinkWrite
      <4>2. writers'[v].open = OpenLinks(x, z)'
        BY <1>5, <3>1, <3>3, <4>1 DEF RecordsInv, ReadIsCurrent, LinkWrite
      <4>3. QED
        BY <3>1, <3>3, <4>1, <4>2 DEF ReadIsCurrent, LinkWrite, OpenLinks, Links
    <3>4. QED
      BY <2>2, <3>2, <3>3 DEF RecordsInv, RecordTypes, Writing, NotWriting
  <2>3. CASE v # w /\ ~ Writing(v)
    BY <1>1, <2>3, WriterEnds DEF ReadIsCurrent, Writing
  <2>4. QED
    BY <2>1, <2>2, <2>3
<1>8. OneOpenLink'
  <2>1. ASSUME NEW x \in Owners, NEW z \in Resources, NEW s \in OpenLinks(x, z)', NEW t \in OpenLinks(x, z)'
        PROVE  s = t
    <3>1. CASE x = u /\ z = r
      BY <1>4, <2>1, <3>1
    <3>2. CASE x # u \/ z # r
      BY <1>5, <2>1, <3>2 DEF RecordsInv, OneOpenLink
    <3>3. QED
      BY <3>1, <3>2
  <2>2. QED
    BY <2>1 DEF OneOpenLink
<1>9. \A x \in Owners : HistoryLeadsTo(displayName[x], nameChanges[x])'
  BY DEF RecordsInv, HistoryLeadsTo, NameAfter
<1>10. QED
  BY <1>1, <1>6, <1>7, <1>8, <1>9, WriterEnds DEF RecordsInv

\* Every step of what Users keep preserves the invariant.
LEMMA RecordsStep ==
  ASSUME RecordsInv, [RecordsNext]_recordVars
  PROVE  RecordsInv'
<1>1. CASE LinkTick \/ UNCHANGED recordVars
  <2>1. UNCHANGED <<displayName, nameChanges, links, writers>> /\ linkTime' \in Nat
    BY <1>1 DEF LinkTick, recordVars, RecordsInv, RecordTypes
  <2>2. QED
    BY <2>1 DEF RecordsInv, RecordTypes, OneWriterEach, Writing, OneOpenLink, ReadIsCurrent,
                OpenLinks, Links, HistoryLeadsTo, NameAfter
<1>2. ASSUME NEW w \in Writers, NEW u \in Owners, NEW name \in DisplayNames, BeginRename(w, u, name)
      PROVE  RecordsInv'
  <2> DEFINE write == [op |-> "rename", owner |-> u, from |-> displayName[u], to |-> name]
  <2>1. write \in RenameWrite
    BY DEF RenameWrite, RecordsInv, RecordTypes
  <2>2. QED
    BY <1>2, <2>1, WriterBegins DEF BeginRename, Writing
<1>3. ASSUME NEW w \in Writers, NEW u \in Owners, NEW r \in Resources, NEW creates \in BOOLEAN,
             BeginLinkChange(w, u, r, creates)
      PROVE  RecordsInv'
  <2>1. PICK op \in {"create", "revoke"} : op = IF creates THEN "create" ELSE "revoke"
    OBVIOUS
  <2> DEFINE write == [op |-> op, owner |-> u, resource |-> r, open |-> OpenLinks(u, r)]
  <2>2. write \in LinkWrite
    BY DEF LinkWrite, OpenLinks, Links
  <2>3. QED
    BY <1>3, <2>1, <2>2, WriterBegins DEF BeginLinkChange, Writing
<1>4. ASSUME NEW w \in Writers, NEW t \in LinkTokens, CreateLink(w, t)
      PROVE  RecordsInv'
  <2>1. writers[w] \in LinkWrite
    BY <1>4 DEF CreateLink, RecordsInv, RecordTypes, RenameWrite, LinkWrite, NotWriting
  <2>2. PICK u \in Owners, r \in Resources :
          u = writers[w].owner /\ r = writers[w].resource /\ writers[w].open = OpenLinks(u, r)
    BY <1>4, <2>1 DEF LinkWrite, RecordsInv, ReadIsCurrent, CreateLink
  <2> DEFINE link == [owner |-> u, resource |-> r, expires |-> linkTime + LinkLifetime, revoked |-> FALSE]
             new == {t}
  <2>3. link \in Link /\ link.owner = u /\ link.resource = r
    BY UserRecordsAssumption DEF Link, RecordsInv, RecordTypes
  <2>4. links' = [AllRevoked(OpenLinks(u, r)) EXCEPT ![t] = link]
    BY <1>4, <2>2 DEF CreateLink
  <2> HIDE DEF link
  <2>5. AllRevoked(OpenLinks(u, r)) \in [LinkTokens -> Link \cup {NoLink}]
    BY LinkRows DEF AllRevoked, OpenLinks, Links, Link, RecordsInv, RecordTypes
  <2>6. /\ links' \in [LinkTokens -> Link \cup {NoLink}]
        /\ \A x \in new : /\ x \notin Links /\ links'[x] \in Link
                          /\ links'[x].owner = u /\ links'[x].resource = r
        /\ \A x \in LinkTokens \ new : links'[x] = AllRevoked(OpenLinks(u, r))[x]
    <3>1. PICK revoked \in [LinkTokens -> Link \cup {NoLink}] : revoked = AllRevoked(OpenLinks(u, r))
      BY <2>5
    <3>2. links' = [revoked EXCEPT ![t] = link]
      BY <2>4, <3>1
    <3>3. /\ links' \in [LinkTokens -> Link \cup {NoLink}] /\ links'[t] = link
          /\ \A x \in LinkTokens \ {t} : links'[x] = revoked[x]
      BY <2>3, <3>2
    <3>4. t \notin Links
      BY <1>4 DEF CreateLink
    <3>5. QED
      BY <2>3, <3>1, <3>3, <3>4
  <2>7. new \in SUBSET LinkTokens /\ \A x, y \in new : x = y
    OBVIOUS
  <2>8. LinkCommit(w, u, r, new)
    BY <1>4, <2>1, <2>2, <2>6, <2>7 DEF CreateLink, LinkCommit
  <2>9. QED
    BY <2>7, <2>8, LinkStep
<1>5. ASSUME NEW w \in Writers, RevokeOpenLink(w)
      PROVE  RecordsInv'
  <2>1. writers[w] \in LinkWrite
    BY <1>5 DEF RevokeOpenLink, RecordsInv, RecordTypes, RenameWrite, LinkWrite, NotWriting
  <2>2. PICK u \in Owners, r \in Resources :
          u = writers[w].owner /\ r = writers[w].resource /\ writers[w].open = OpenLinks(u, r)
    BY <1>5, <2>1 DEF LinkWrite, RecordsInv, ReadIsCurrent, RevokeOpenLink
  <2>3. AllRevoked(OpenLinks(u, r)) \in [LinkTokens -> Link \cup {NoLink}]
    BY LinkRows DEF AllRevoked, OpenLinks, Links, Link, RecordsInv, RecordTypes
  <2> DEFINE new == {}
  <2>4. /\ links' = AllRevoked(OpenLinks(u, r))
        /\ writers' = [writers EXCEPT ![w] = NotWriting]
        /\ UNCHANGED <<displayName, nameChanges, linkTime>>
    BY <1>5, <2>2 DEF RevokeOpenLink
  <2>5. /\ new \in SUBSET LinkTokens /\ \A x, y \in new : x = y
        /\ links' \in [LinkTokens -> Link \cup {NoLink}]
        /\ \A x \in new : /\ x \notin Links /\ links'[x] \in Link
                          /\ links'[x].owner = u /\ links'[x].resource = r
        /\ \A x \in LinkTokens \ new : links'[x] = AllRevoked(OpenLinks(u, r))[x]
    BY <2>3, <2>4
  <2>6. LinkCommit(w, u, r, new)
    BY <2>1, <2>2, <2>4, <2>5 DEF LinkCommit
  <2>7. QED
    BY <2>5, <2>6, LinkStep
<1>6. ASSUME NEW w \in Writers, RollBack(w)
      PROVE  RecordsInv'
  <2>1. /\ Writing(w) /\ writers' = [writers EXCEPT ![w] = NotWriting]
        /\ UNCHANGED <<displayName, nameChanges, links, linkTime>>
    BY <1>6 DEF RollBack, Writing
  <2>2. \A v \in Writers : ReadIsCurrent(v)'
    BY <2>1, WriterEnds DEF RecordsInv, ReadIsCurrent, OpenLinks, Links, NotWriting
  <2>3. RecordTypes' /\ OneWriterEach'
    BY <2>1, WriterEnds DEF RecordsInv, RecordTypes
  <2>4. OneOpenLink' /\ \A u \in Owners : HistoryLeadsTo(displayName[u], nameChanges[u])'
    BY <2>1 DEF RecordsInv, OneOpenLink, OpenLinks, Links, HistoryLeadsTo, NameAfter
  <2>5. QED
    BY <2>2, <2>3, <2>4 DEF RecordsInv
<1>7. QED
  BY <1>1, <1>2, <1>3, <1>4, <1>5, <1>6, RenameStep DEF RecordsNext

\* The invariant is what RecordsAgree promises, and why.
LEMMA RecordsInvHolds ==
  ASSUME RecordsInv
  PROVE  RecordsAgree
<1>1. RecordsTypeOK
  BY LinkRows DEF RecordsInv, RecordTypes, RecordsTypeOK
<1>2. ASSUME NEW u \in Owners, NEW r \in Resources
      PROVE  /\ Cardinality(OpenLinks(u, r)) <= 1
             /\ LinkIsActive(u, r) <=>
                  \E t \in LinkTokens : /\ ResolveLink(t) = "valid"
                                        /\ links[t].owner = u /\ links[t].resource = r
  <2>1. Cardinality(OpenLinks(u, r)) <= 1
    <3>1. CASE OpenLinks(u, r) = {}
      BY <3>1, FS_EmptySet
    <3>2. ASSUME NEW t \in OpenLinks(u, r)
          PROVE  Cardinality(OpenLinks(u, r)) = 1
      <4>1. OpenLinks(u, r) = {t}
        BY <3>2 DEF RecordsInv, OneOpenLink
      <4>2. QED
        BY <4>1, FS_Singleton
    <3>3. QED
      BY <3>1, <3>2
  <2>2. ASSUME NEW t \in LinkTokens
        PROVE  ResolveLink(t) = "valid" <=>
                 t \in Links /\ ~ links[t].revoked /\ linkTime < links[t].expires
    <3>1. t \in Links => links[t].expires \in Nat /\ linkTime \in Nat
      BY LinkRows DEF Link, RecordsInv, RecordTypes
    <3>2. QED
      BY <3>1 DEF ResolveLink
  <2>3. QED
    BY <2>1, <2>2 DEF LinkIsActive, OpenLinks, Links
<1>3. ASSUME NEW u \in Owners
      PROVE  LET history == nameChanges[u]
             IN /\ displayName[u] = (IF history = <<>> THEN NoName ELSE history[Len(history)].to)
                /\ \A k \in 1..Len(history) :
                     history[k].from = (IF k = 1 THEN NoName ELSE history[k - 1].to)
  <2>1. nameChanges[u] \in Seq(NameChange) /\ HistoryLeadsTo(displayName[u], nameChanges[u])
    BY DEF RecordsInv, RecordTypes
  <2>2. nameChanges[u] = <<>> <=> Len(nameChanges[u]) = 0
    BY <2>1
  <2>3. QED
    BY <2>1, <2>2 DEF HistoryLeadsTo, NameAfter
<1>4. QED
  BY <1>1, <1>2, <1>3 DEF RecordsAgree

\* RecordsAgree (LockUser, RevokeOpenLink and ChangeDisplayName): a User never
\* has two links to a resource that work, and sees the one that does; their
\* name is where its history led, however their changes interleave.
THEOREM UsersKeepTheirRecords == IdentitySpec => []RecordsAgree
<1>1. IdentityInit => RecordsInv
  <2>1. RecordsInit => RecordsInv
    BY DEF RecordsInit, RecordsInv, RecordTypes, OneWriterEach, Writing, NotWriting, OneOpenLink,
           OpenLinks, Links, ReadIsCurrent, HistoryLeadsTo, NameAfter
  <2>2. QED
    BY <2>1 DEF IdentityInit
<1>2. RecordsInv /\ [IdentityNext]_identityVars => RecordsInv'
  <2>1. [IdentityNext]_identityVars => [RecordsNext]_recordVars
    BY DEF IdentityNext, identityVars
  <2>2. QED
    BY <2>1, RecordsStep
<1>3. RecordsInv => RecordsAgree
  BY RecordsInvHolds
<1>4. QED
  BY <1>1, <1>2, <1>3, PTL DEF IdentitySpec
=============================================================================
