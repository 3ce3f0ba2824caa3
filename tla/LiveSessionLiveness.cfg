SPECIFICATION FairSpec
CONSTANTS
  Users = {u1, u2}
  NoUser = NoUser
  MaxConns = 2
  MaxPlayers = 2
  RejoinDeclared = TRUE
  BoundaryOperations = 2
  AskedCauses = {}
  MaxStarts = 1
  MaxFaults = 1
CHECK_DEADLOCK FALSE
PROPERTIES
  CallsAreAnswered
  TheGameIsTold
  NobodyPlaysAnEmptyGame
