------------------------ MODULE MCServedConnection ------------------------
(* Small instance of ServedConnection: one lane for each kind, standing for
   any of its types.  Each kind brings one of the cases: a player's answers
   among its lobby and roster, an admin's connection ended twice over, a
   preview switched between participants. *)
EXTENDS ServedConnection

\* A player answers COMMANDs beyond the limits, an admin's requests close.
MCExcess == [k \in Kinds |-> IF k = "admin" THEN {"close", "drop"} ELSE {"answer", "drop"}]

MCProduced ==
  [player  |-> [lane |-> 1, lobby |-> 1, views |-> 0, roster |-> 1],
   admin   |-> [lane |-> 1, lobby |-> 0, views |-> 0, roster |-> 0],
   preview |-> [lane |-> 1, lobby |-> 0, views |-> 2, roster |-> 0]]
MCEnds == [player |-> 1, admin |-> 2, preview |-> 1]
=============================================================================
