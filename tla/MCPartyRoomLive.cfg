SPECIFICATION FairSpec
CONSTANTS
  p1 = p1
  p2 = p2
  quiz = quiz
  relay = relay
  Player = {p1, p2}
  Game = {quiz}
  NoPlayer = NoPlayer
  NoTime = NoTime
  NoGame = NoGame
  WaitForReady = {}
  ContinuesRun = {}
  GameScoped = {}
  SetupGames = {quiz}
  ConfirmGames = {}
  MinPlayers <- MCMin
  MaxPlayers <- MCMax
  GamePhases = {"playing", "locked"}
  ScoreLists = {{}}
  Duration <- MCDurationLive
  HandoverMs = 1
  MaxTime = 2
  MaxRounds = 1
PROPERTIES
  OverdueHandoverCompletes
  OverduePhaseEnds
