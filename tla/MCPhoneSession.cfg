SPECIFICATION FairSpec
CONSTANTS
  MaxSeats = 2
  MaxDevices = 3
  MaxRounds = 1
  MaxLosses = 2
  MaxTimeouts = 1
  MaxAsked = 1
  MaxLine = 3
CHECK_DEADLOCK FALSE
INVARIANTS
  TypeOK
  EndedStaysEnded
  SettledPhoneIsSeated
  SettledPhoneShowsRound
  OneSeatPerDevice
PROPERTIES
  SessionComesBack
