SPECIFICATION ServicesSpec
CONSTANTS
  r1 = r1
  r2 = r2
  h1 = h1
  h2 = h2
  h3 = h3
  ContextOwners = {x1, x2}
  MaxContexts = 1
  MaxExecutions = 1
  NoWorker = NoWorker
  NoMirror = NoMirror
  MaxSteps = 2
  MaxSpawns = 3
  Limits <- MCLimits
  Per <- MCPer
  Interval <- MCInterval
  Amounts = {1, 2}
  MaxClock = 6
  UserKeys = {b1}
  ClientKeys = {k1, k2}
  NoSubject = NoSubject
  SweepEvery = 6
  HitKeys = {b1, k1, k2}
  UnknownTargets = {k2}
  MaxPendingKeys = 2
  MaxHits = 2
  Recordings = {r1, r2}
  Storers = {y1, y2}
  NoChunk = NoChunk
  StateEvery = 2
  ChunkTicks = 5
  MaxRecords = 3
  MaxPendingChunks = 1
  InboxSize = 1
  StoreAttempts = 2
  MaxTicks <- MCMaxTicks
  Handshakes = {h1, h2, h3}
  CallerOf <- MCCallerOf
  MaxConnections = 2
  MaxPerCaller = 1
  MaxRefusing = 1
  MaxRefusingPerCaller = 1
SYMMETRY Symmetry
CHECK_DEADLOCK FALSE
INVARIANTS
  ContextsHold
  LimitsHold
  LimitsForgetNothing
  ReplaysHold
  RoomIsGivenBack
