SPECIFICATION ServedFairSpec
CONSTANTS
  Kinds = {"player", "admin", "preview"}
  Lanes = {"lane"}
  Excess <- MCExcess
  Capacity = 1
  Actors = {"P1", "P2"}
  MaxProduced <- MCProduced
  MaxEnds <- MCEnds
INVARIANTS
  SentInOrder
  NothingIsCutShort
  RecordedEndsAreReported
PROPERTIES
  ServedToTheEnd
