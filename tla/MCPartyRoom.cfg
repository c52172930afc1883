SPECIFICATION Spec
CONSTANTS
  p1 = p1
  p2 = p2
  quiz = quiz
  relay = relay
  Player = {p1, p2}
  Game = {quiz, relay}
  NoPlayer = NoPlayer
  NoTime = NoTime
  NoGame = NoGame
  WaitForReady = {relay}
  ContinuesRun = {relay}
  GameScoped = {}
  SetupGames = {}
  ConfirmGames = {quiz}
  MinPlayers <- MCMin
  MaxPlayers <- MCMax
  GamePhases = {"playing", "locked"}
  ScoreLists <- MCScoreLists
  Duration <- MCDuration
  HandoverMs = 1
  MaxTime = 3
  MaxRounds = 2
SYMMETRY Symmetry
INVARIANTS
  TypeOK
  ControlBelongsToTheRoom
  HoldBelongsToTheRoom
  RoundIsOfSelectedGame
  SettledRoundIsScored
  PaidOncePerRound
PROPERTIES
  RoomClockContinuous
  RoundStartsRunning
  PauseFreezesTimers
  NoSilentTakeover
  ImplementsLifecycle
