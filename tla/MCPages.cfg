SPECIFICATION Spec
CONSTANTS
  Tracks = {"menu", "race"}
  MaxRoundTrip = 1
  RefreshAfter = 2
  WallTime = 2
  StrokeLimit = 1
  PointLimit = 2
  Manifests <- MCManifests
  Player = {"ann", "bob", "cat"}
  Option = {"red", "blue"}
  MinPlayers = 2
  MinPerOption = 1
  Board <- MCBoard
  Home <- MCHome
  Slots = 2
  MaxChoices = 3
  MaxHides = 1
  MusicGestures = 2
  LockRefusals = 2
  LockReleases = 2
  LockSwitches = 2
  MaxTime = 2
  MaxSlips = 1
  MaxRequests = 2
  ThumbTouches = 2
  ThumbDrops = 1
  ThumbOutages = 1
  ThumbSwitches = 1
  MaxTasks = 2
  PhotoPicks = 3
  PhotoOutages = 1
  MaxStrokes = 2
  MaxPoints = 3
  MaxCards = 2
  DrawingOutages = 1
  MaxRotations = 1
  MaxClears = 1
  MaxRounds = 2
  MaxOpens = 1
  MaxStarts = 1
  MaxHandovers = 1
  MaxBreaks = 1
  MaxLine = 2
  SteeringGestures = 5
  SteeringSwitches = 2
  MaxHoles = 0
  MaxConfirms = 2
  ArenaPicks = 2
  SleepRefusals = 1
  SleepReleases = 1
  SleepSwitches = 2
  SleepTouches = 1
CHECK_DEADLOCK FALSE
INVARIANTS TypeOK PageLetsGo WorkIsKept ClockErrorBounded
PROPERTIES AssignmentIsGentle GameFollowsThumb PagesComeRound
