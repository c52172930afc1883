SPECIFICATION Spec
CONSTANTS
  a = a
  b = b
  s1 = s1
  s2 = s2
  s3 = s3
  d1 = d1
  d2 = d2
  p1 = p1
  p2 = p2
  Code = {a, b}
  Socket = {s1, s2, s3}
  Device = {d1, d2}
  PlayerId = {p1, p2}
  NoCode = NoCode
  NoSocket = NoSocket
  NoDevice = NoDevice
  NoPlayer = NoPlayer
  NoTime = NoTime
  ReconnectWindowMs = 1
  Hosted = TRUE
  PrimaryCode = NoCode
  MaxRooms = 1
  InactivityMs = 1
  LifetimeMs = 2
  ExtensionWindowMs = 1
  Habits = {}
  MaxTime = 2
SYMMETRY Symmetry
INVARIANTS
  TypeOK
  SessionsResume
  OnlineMeansReachable
  HostSocketIsLive
  RoomLimit
PROPERTIES
  ActiveRoomStays
  ReachableStaysOnline
