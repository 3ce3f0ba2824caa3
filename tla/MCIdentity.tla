----------------------------- MODULE MCIdentity -----------------------------
(***************************************************************************)
(* The parts of Identity are given the same model values for their secrets,*)
(* requests and callers, so that one small symmetry group serves them all. *)
(***************************************************************************)
EXTENDS Identity, TLC

Symmetry ==
  Permutations(Users) \cup Permutations(Tokens) \cup Permutations(Calls) \cup Permutations(Attempts)
=============================================================================
