-------------------------- MODULE MCRuntimeServices --------------------------
(* Small instance of RuntimeServices. *)
EXTENDS RuntimeServices, TLC

CONSTANTS r1, r2, h1, h2, h3

\* Limit 1 refills fast, limit 2 slowly: their rooms differ at most instants.
MCLimits == {1, 2}
MCPer == [l \in MCLimits |-> IF l = 1 THEN 2 ELSE 6]
MCInterval == [l \in MCLimits |-> IF l = 1 THEN 1 ELSE 2]

\* One game long enough for every way a chunk ends, beside a short one.
MCMaxTicks == r1 :> 5 @@ r2 :> 1

\* A caller with two handshakes and one with one.
MCCallerOf == h1 :> "c1" @@ h2 :> "c1" @@ h3 :> "c2"

\* The owners of contexts are alike, and so are the store workers.
Symmetry == Permutations(ContextOwners) \cup Permutations(Storers)
=============================================================================
