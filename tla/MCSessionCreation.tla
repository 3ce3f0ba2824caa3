-------------------------- MODULE MCSessionCreation --------------------------
(* SessionCreation on small sets for TLC. *)
EXTENDS SessionCreation, TLC
=============================================================================
