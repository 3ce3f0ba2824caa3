SPECIFICATION MCSpec
CONSTANTS
  w1 = w1
  Paths = {"project"}
  AllowedPaths = {"project"}
  RequiredFiles = {"project"}
  ProjectFile = "project"
  StarterText <- MCDeclaring
  AssetKeys = {"logo", "sound"}
  OptionalAssets = {"sound"}
  Blobs = {png}
  Refused = Refused
  Accepts <- MCAccepts
  BadWord = "bad"
  MaxFiles = 2
  MaxFileBytes = 2
  MaxTotalBytes = 3
  Versions = {v1, v2}
  Callers = {c1, c2}
  IdempotencyKeys = {i1, i2}
  DraftChanges <- MCChanges
  Nothing = Nothing
  MaxRevisionRaces = 2
  UploadSlots = 1
  Weight <- MCWeight
  MaxAssetsWeight = 1
  Workers = {w1, w2}
  MaxFaults = 2
  PublishKeys = {p1, p2}
  EditionKeys = {e1}
SYMMETRY Symmetry
CHECK_DEADLOCK FALSE
INVARIANTS
  AppliedOnce
  WhatIsUsedIsStored
  NewestIsBuilt
  PublishedOnce
PROPERTIES
  FrozenForGood
