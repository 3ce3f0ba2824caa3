SPECIFICATION Spec
CONSTANTS
  Sessions = {s1}
  Owners = {o1, o2}
  Reconcilers = {r1, r2}
  OwnerCauses = {"GAME_FINISHED", "HOST_CANCELLED", "GAME_START_FAILURE"}
  Revisions = {0, 1}
  LobbyTTL = 1
  MaxLifetime = 3
  OwnerLease = 1
  Batch = 1
  MaxTime = 3
  MaxFaults = 1
SYMMETRY Symmetry
INVARIANTS
  DurableStateIsSound
PROPERTIES
  PromiseKept
  ReconcilesOnlyTheOverdue
  FinishedGameIsNotLost
