--------------------------- MODULE SessionPromise ---------------------------
(***************************************************************************)
(* What the durable Session promises to everyone who reads it, whatever    *)
(* owners, retries and reconciliation passes write to it concurrently: a   *)
(* Session is created in its lobby, may start once, keeps a checkpoint     *)
(* that only advances while it runs, and ends at most once, for a cause    *)
(* that applies to where it was.                                           *)
(***************************************************************************)
EXTENDS Integers, SessionStatus

CONSTANTS
  Sessions,   \* the Sessions that may be created
  Revisions   \* the context revisions a checkpoint may be of

VARIABLES
  status,   \* [Sessions -> Status \cup {Absent}]
  cause,    \* [Sessions -> EndCause \cup {NoCause}]
  saved     \* context revision of each Session's checkpoint, -1 for none

vars == <<status, cause, saved>>

Init ==
  /\ status = [s \in Sessions |-> Absent]
  /\ cause  = [s \in Sessions |-> NoCause]
  /\ saved  = [s \in Sessions |-> -1]

Create(s) ==
  /\ status[s] = Absent
  /\ status' = [status EXCEPT ![s] = Lobby]
  /\ UNCHANGED <<cause, saved>>

Start(s) ==
  /\ status[s] = Lobby
  /\ status' = [status EXCEPT ![s] = Running]
  /\ \E r \in Revisions : saved' = [saved EXCEPT ![s] = r]
  /\ UNCHANGED cause

Advance(s) ==
  /\ status[s] = Running
  /\ \E r \in Revisions : r > saved[s] /\ saved' = [saved EXCEPT ![s] = r]
  /\ UNCHANGED <<status, cause>>

End(s) ==
  /\ \E c \in EndCause :
       /\ status[s] \in EndingFrom(c)
       /\ status' = [status EXCEPT ![s] = EndingStatus(c)]
       /\ cause'  = [cause EXCEPT ![s] = c]
  /\ UNCHANGED saved

Next == \E s \in Sessions : Create(s) \/ Start(s) \/ Advance(s) \/ End(s)

Spec == Init /\ [][Next]_vars
=============================================================================
