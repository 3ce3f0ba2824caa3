SPECIFICATION Spec
CONSTANTS
  Users = {u1, u2}
  NoUser = NoUser
  MaxConns = 3
  MaxPlayers = 2
  RejoinDeclared = TRUE
  BoundaryOperations = 1
  AskedCauses = {"LOBBY_EXPIRED"}
  MaxStarts = 1
  MaxFaults = 1
SYMMETRY Symmetry
CHECK_DEADLOCK FALSE
INVARIANTS
  PresenceAgrees
  GamesAgree
  ToldEndingsAreDurable
PROPERTIES
  AbandonedOnlyOnceTold
