SPECIFICATION MCSpec
CONSTANTS
  w1 = w1
  Paths = {"project"}
  AllowedPaths = {"project"}
  RequiredFiles = {"project"}
  ProjectFile = "project"
  StarterText <- MCDeclaring
  AssetKeys = {"logo", "sound"}
  OptionalAssets = {"logo", "sound"}
  Blobs = {png}
  Refused = Refused
  Accepts <- MCAccepts
  BadWord = "bad"
  MaxFiles = 2
  MaxFileBytes = 2
  MaxTotalBytes = 3
  Versions = {v1}
  Callers = {c1, c2}
  IdempotencyKeys = {i1}
  DraftChanges <- MCChanges
  Nothing = Nothing
  MaxRevisionRaces = 2
  UploadSlots = 1
  Weight <- MCWeight
  MaxAssetsWeight = 1
  Workers = {w1}
  MaxFaults = 0
  PublishKeys = {p1}
  EditionKeys = {e1}
INVARIANT FrozenAtItsRevision
CHECK_DEADLOCK FALSE
