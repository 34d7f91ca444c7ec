\* Two of everything that can overlap or be confused; three entries where order matters.
SPECIFICATION Spec
CONSTANTS
  Options = {"x", "y"}
  Default = "default"
  PoolWorkers = {w1, w2}
  HistoryCap = 2
  MaxPending = 1
  MaxTime = 1
  ScanTasks = {"pool"}
  Players <- MCPlayers
  Rules <- MCRules
  Contexts <- MCContexts
  Threshold = 15
  ListLimit = 1
  Marks = {"ban"}
  MaxFlags = 2
  MaxClock = 1
  MaxClicks = 1
  Uids = {"u1", "u2"}
  NoUid = ""
  PlayerIds = {"u1", "u2"}
  NoPlayer = ""
  Bases = {b1, b2}
  MapPlayers = {player}
  Nothing = nothing
  Wide = 4
  Narrow = 2
  Extents = {4, 8}
  Home = 4
  Pixels = {0, 1}
  Centers <- MCCenters
  Ids = {"", "a", "b"}
  NoId = ""
  MaxProfiles = 3
  Culprits = {"p"}
  ScanRules = {"info", "low", "critical"}
  SeverityOf <- MCSeverity
  Decay <- MCDecay
  MaxQueued = 3
  MaxDay = 3
  MaxVisible = 2
  MaxKept = 3
  Duration = 3
  FrameTimes = {1, 3}
  MaxNotices = 5
INVARIANTS
  InterfaceTypeOK
  ActiveIsListed
PROPERTIES
  SettingsKept
  RefreshKept
  ConsoleKept
  TrustTakesEffect
  DismissedIsSettled
  QueueKept
  PanelKept
  SeenUnlessFlooded
\* The recorded histories of the components are bounded.
CHECK_DEADLOCK FALSE
