------------------------------ MODULE MCRuntime ------------------------------
(* Small instance of Runtime. *)
EXTENDS Runtime, TLC

CONSTANT MaxEffort

\* How far a behaviour of the timeline has gone.
Effort == connections + game.revision + now + failures + Len(Unfinished)
          + (IF phase = "down" \/ resumed # {} THEN 1 ELSE 0) + (IF paused THEN 1 ELSE 0)
          + FoldLeft(LAMBDA n, p : n + ingress[p].accepted, 0, SetToSeq(Participants))

Bound == Effort <= IF hasUpdate THEN MaxEffort - 1 ELSE MaxEffort

\* Participants and starters are given the same model values, and so one group.
Symmetry == Permutations(Participants) \cup Permutations(Tokens) \cup Permutations(Names)
=============================================================================
