SPECIFICATION FairSpec
CONSTANTS
  Manifests <- TwoGames
  MaxRounds = 2
  MaxVersion = 1
  MaxDrops = 1
  MaxLosses = 1
  MaxLine = 3
CHECK_DEADLOCK FALSE
INVARIANTS
  TypeOK
  PatchBaseIsShown
PROPERTIES
  SettledRoomIsShown
  RunningRoundIsShown
