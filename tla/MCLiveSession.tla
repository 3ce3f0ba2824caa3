--------------------------- MODULE MCLiveSession ---------------------------
(* Small instances of LiveSession for TLC. *)
EXTENDS LiveSession

Symmetry == Permutations(Users)
=============================================================================
