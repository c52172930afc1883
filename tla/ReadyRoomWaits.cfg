SPECIFICATION FairSpec
CONSTANTS
  p1 = p1
  p2 = p2
  quiz = quiz
  relay = relay
  Player = {p1, p2}
  Game = {relay}
  NoPlayer = NoPlayer
  NoTime = NoTime
  NoGame = NoGame
  WaitForReady = {relay}
  ContinuesRun = {}
  GameScoped = {}
  SetupGames = {}
  ConfirmGames = {}
  MinPlayers <- MCMin
  MaxPlayers <- MCMax
  GamePhases = {"playing"}
  ScoreLists <- MCScoreLists
  Duration <- MCDuration
  HandoverMs = 1
  MaxTime = 2
  MaxRounds = 1
PROPERTY
  ReadyRoundStarts
