---------------------------- MODULE UserRecords ----------------------------
(***************************************************************************)
(* What a User keeps besides their credentials: their display name with    *)
(* its history (identity/usecases/setdisplayname) and the links that let   *)
(* their holder act on one resource of theirs                              *)
(* (identity/usecases/resourcelinks).  Each change locks the User's row,   *)
(* reads, and commits; `writers' holds the ones between their lock and     *)
(* their commit.                                                           *)
(***************************************************************************)
EXTENDS Naturals, Sequences, FiniteSets

CONSTANTS
  Owners, DisplayNames, NoName, LinkTokens, Resources, NoLink, Writers, MaxLinkTime,
  LinkLifetime, MaxChanges

Link == [owner : Owners, resource : Resources, expires : Nat, revoked : BOOLEAN]

\* NoLink stands for a row that is not there.
ASSUME UserRecordsAssumption ==
  {LinkLifetime, MaxLinkTime, MaxChanges} \subseteq Nat /\ NoLink \notin Link

VARIABLES
  displayName,   \* Owner -> name or NoName
  nameChanges,   \* Owner -> their identity_display_name_changes
  links,         \* Token -> NoLink, or its row
  writers,       \* Writer -> what it has locked and read
  linkTime

recordVars == <<displayName, nameChanges, links, writers, linkTime>>

NameChange == [from : DisplayNames \cup {NoName}, to : DisplayNames]

NotWriting == [op |-> "none"]

Links == {t \in LinkTokens : links[t] # NoLink}

OpenLinks(u, r) ==
  {t \in Links : links[t].owner = u /\ links[t].resource = r /\ ~ links[t].revoked}

\* Mutant: a read of the User's row that does not lock it.
LockUserWithoutWaiting(u) == TRUE

\* LockUser: whoever holds the User's row is waited for.
LockUser(u) == \A w \in Writers : writers[w].op # "none" => writers[w].owner # u

-----------------------------------------------------------------------------
\* The same name again changes nothing.
BeginRename(w, u, name) ==
  /\ writers[w].op = "none" /\ LockUser(u)
  /\ displayName[u] # name
  /\ Len(nameChanges[u]) < MaxChanges
  /\ writers' = [writers EXCEPT ![w] =
       [op |-> "rename", owner |-> u, from |-> displayName[u], to |-> name]]
  /\ UNCHANGED <<displayName, nameChanges, links, linkTime>>

ChangeDisplayName(w) ==
  /\ writers[w].op = "rename"
  /\ LET write == writers[w]
     IN /\ displayName' = [displayName EXCEPT ![write.owner] = write.to]
        /\ nameChanges' = [nameChanges EXCEPT ![write.owner] =
             Append(@, [from |-> write.from, to |-> write.to])]
  /\ writers' = [writers EXCEPT ![w] = NotWriting]
  /\ UNCHANGED <<links, linkTime>>

-----------------------------------------------------------------------------
\* RevokeOpenLink: the links its update found open.
BeginLinkChange(w, u, r, creates) ==
  /\ writers[w].op = "none" /\ LockUser(u)
  /\ writers' = [writers EXCEPT ![w] =
       [op |-> IF creates THEN "create" ELSE "revoke", owner |-> u, resource |-> r,
        open |-> OpenLinks(u, r)]]
  /\ UNCHANGED <<displayName, nameChanges, links, linkTime>>

AllRevoked(set) ==
  [t \in LinkTokens |-> IF t \in set THEN [links[t] EXCEPT !.revoked = TRUE] ELSE links[t]]

CreateLink(w, t) ==
  /\ writers[w].op = "create"
  /\ t \notin Links
  /\ links' = [AllRevoked(writers[w].open) EXCEPT ![t] =
       [owner |-> writers[w].owner, resource |-> writers[w].resource,
        expires |-> linkTime + LinkLifetime, revoked |-> FALSE]]
  /\ writers' = [writers EXCEPT ![w] = NotWriting]
  /\ UNCHANGED <<displayName, nameChanges, linkTime>>

RevokeOpenLink(w) ==
  /\ writers[w].op = "revoke"
  /\ links' = AllRevoked(writers[w].open)
  /\ writers' = [writers EXCEPT ![w] = NotWriting]
  /\ UNCHANGED <<displayName, nameChanges, linkTime>>

\* What a link's holder is told.
ResolveLink(t) ==
  IF t \notin Links THEN "unknown"
  ELSE IF links[t].revoked THEN "revoked"
  ELSE IF linkTime >= links[t].expires THEN "expired" ELSE "valid"

\* Whether the User sees a live link.
LinkIsActive(u, r) == \E t \in OpenLinks(u, r) : linkTime < links[t].expires

RollBack(w) ==
  /\ writers[w].op # "none"
  /\ writers' = [writers EXCEPT ![w] = NotWriting]
  /\ UNCHANGED <<displayName, nameChanges, links, linkTime>>

LinkTick ==
  /\ linkTime < MaxLinkTime
  /\ linkTime' = linkTime + 1
  /\ UNCHANGED <<displayName, nameChanges, links, writers>>

-----------------------------------------------------------------------------
RecordsInit ==
  /\ displayName = [u \in Owners |-> NoName]
  /\ nameChanges = [u \in Owners |-> <<>>]
  /\ links = [t \in LinkTokens |-> NoLink]
  /\ writers = [w \in Writers |-> NotWriting]
  /\ linkTime = 0

RecordsNext ==
  \/ \E w \in Writers :
       \/ \E u \in Owners, name \in DisplayNames : BeginRename(w, u, name)
       \/ ChangeDisplayName(w)
       \/ \E u \in Owners, r \in Resources, creates \in BOOLEAN : BeginLinkChange(w, u, r, creates)
       \/ \E t \in LinkTokens : CreateLink(w, t)
       \/ RevokeOpenLink(w)
       \/ RollBack(w)
  \/ LinkTick

RecordsSpec == RecordsInit /\ [][RecordsNext]_recordVars

-----------------------------------------------------------------------------
RecordsTypeOK ==
  /\ \A u \in Owners :
       /\ displayName[u] \in DisplayNames \cup {NoName}
       /\ nameChanges[u] \in Seq(NameChange)
  /\ \A t \in Links : links[t] \in Link

\* A User has at most one link to a resource that still works, they see it
\* exactly while it does, and their name is where its history led: each
\* change starts from the name the one before it gave.
RecordsAgree ==
  /\ RecordsTypeOK
  /\ \A u \in Owners, r \in Resources :
       /\ Cardinality(OpenLinks(u, r)) <= 1
       /\ LinkIsActive(u, r) <=>
            \E t \in LinkTokens :
              /\ ResolveLink(t) = "valid"
              /\ links[t].owner = u /\ links[t].resource = r
  /\ \A u \in Owners :
       LET history == nameChanges[u]
       IN /\ displayName[u] = (IF history = <<>> THEN NoName ELSE history[Len(history)].to)
          /\ \A k \in 1..Len(history) :
               history[k].from = (IF k = 1 THEN NoName ELSE history[k - 1].to)
=============================================================================
