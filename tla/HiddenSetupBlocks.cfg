SPECIFICATION Spec
CONSTANTS
  Player = {p1, p2, p3}
  Option = {a, b}
  Manifests <- Manifest
  MinPlayers = 1
  MinPerOption = 1
  MaxRounds = 2
PROPERTIES HiddenSetupBlocksNobody
