SPECIFICATION Spec
CONSTANTS
  Users = {u1}
  NoUser = NoUser
  MaxConns = 2
  MaxPlayers = 2
  RejoinDeclared = TRUE
  BoundaryOperations = 2
  AskedCauses = {"LOBBY_EXPIRED"}
  MaxStarts = 1
  MaxFaults = 1
CHECK_DEADLOCK FALSE
INVARIANT
  DisconnectsTakeEffect
