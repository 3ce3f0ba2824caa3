SPECIFICATION RuntimeSpec
CONSTANTS
  Participants = {y1, y2}
  Tokens = {t1, t2}
  Snapshots = {d, e}
  Default = d
  Nil = Nil
  Keep = 1
  PendingCommands = 1
  PendingPerParticipant = 2
  PendingPerSession = 2
  BoundaryOperations = 1
  MaxInfraFailures = 2
  MaxSequence = 2
  MaxConnections = 2
  MaxRevision = 2
  MaxTime = 1
  MaxEffort = 4
  Seats = {s1, s2}
  Players = {c}
  Admins = {a}
  Fields = {f, g}
  FieldValues = {0, 1}
  NoView = NoView
  MaxPending = 2
  MaxViews = 2
  MaxResyncs = 1
  Names = {x1, x2, x3}
  Epochs = {1, 2}
  Askers = {c1, c2}
  Creator = c1
  MaxLive = 2
  MaxAdmins = 1
  MaxControllers = 3
  Starters = {y1, y2}
  Attachers = {c2}
  NoPreview = NoPreview
CONSTRAINT Bound
SYMMETRY Symmetry
CHECK_DEADLOCK FALSE
INVARIANTS
  CommandsRunOnce
  InputsAgree
  ViewersCatchUp
  ControllersAgree
  PreviewsAreRecorded
PROPERTIES
  EndsAreFinal
