SPECIFICATION IdentitySpec
CONSTANTS
  Users = {u1, u2}
  Tokens = {t1, t2, t3}
  Keys = {k1}
  Names = {n1}
  Calls = {c1, c2}
  Attempts = {a1, a2}
  Identities = {i1}
  NoUser = NoUser
  NoToken = NoToken
  NoRow = NoRow
  Nobody = Nobody
  Never = 20
  MaxTime = 1
  RotationAge = 0
  PreviousGrace = 1
  AccountInactivity = 1
  AccountMaxLifetime = 2
  ReplayWindow = 1
  AttemptLifetime = 1
  CodeLifetime = 1
  AIClients = {x1}
  AIRequests = {a1, a2}
  AISecrets = {t1, t2, t3}
  AIUsers = {u1, u2}
  NoAIRow = NoAIRow
  MaxAITime = 2
  RequestLifetime = 2
  AICodeLifetime = 1
  RefreshLifetime = 2
  AccessLifetime = 1
  Owners = {u1, u2}
  DisplayNames = {n1, n2}
  NoName = NoName
  LinkTokens = {t1, t2, t3}
  Resources = {g1}
  NoLink = NoLink
  Writers = {c1, c2}
  MaxLinkTime = 1
  LinkLifetime = 1
  MaxChanges = 2
SYMMETRY Symmetry
CHECK_DEADLOCK FALSE
INVARIANTS
  SessionsHold
  LoginsHold
  ConnectionsHold
  RecordsAgree
