------------------------------ MODULE Identity ------------------------------
(***************************************************************************)
(* The Identity domain: credentials and account logins, AI applications'   *)
(* access, and what Users keep.  The three share no row but the User's     *)
(* own, which the last two only find and lock: a behaviour exercises one   *)
(* of them, its `part', and leaves the others as they start.               *)
(***************************************************************************)
EXTENDS AccountLogin, AIAuthorization, UserRecords

VARIABLE part

identityVars == <<vars, aiVars, recordVars, part>>

IdentityInit ==
  /\ Init /\ AIInit /\ RecordsInit
  /\ part \in {"login", "ai", "records"}

IdentityNext ==
  /\ \/ part = "login" /\ Next /\ UNCHANGED <<aiVars, recordVars>>
     \/ part = "ai" /\ AINext /\ UNCHANGED <<vars, recordVars>>
     \/ part = "records" /\ RecordsNext /\ UNCHANGED <<vars, aiVars>>
  /\ UNCHANGED part

IdentitySpec == IdentityInit /\ [][IdentityNext]_identityVars
=============================================================================
