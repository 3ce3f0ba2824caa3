SPECIFICATION FairSpec
CONSTANTS
  Sessions = {s1, s2}
  Owners = {o1}
  Reconcilers = {r1}
  OwnerCauses = {}
  Revisions = {0}
  LobbyTTL = 1
  MaxLifetime = 2
  OwnerLease = 1
  Batch = 1
  MaxTime = 2
  MaxFaults = 1
PROPERTIES
  OverdueEventuallyEnds
