SPECIFICATION FairSpec
CONSTANTS
  Users = {u1, u2}
  Keys = {k1, k2}
  Games = {g1}
  Sessions = {s1, s2}
  Codes = {x, y}
  Calls = {c1, c2}
  MaxActive = 1
  MaxAttempts = 1
  LobbyTTL = 1
  MaxTime = 2
INVARIANTS
  CreatedOnce
  CodesLeadToTheirLobby
  OpenLobbiesWithinLimit
PROPERTIES
  CreationsEnd
