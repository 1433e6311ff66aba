SPECIFICATION FairSpec
CONSTANTS
  u1 = u1
  u2 = u2
  none = none
  Receivers <- MCReceivers
  Urls <- OneUrl
  NoUrl <- MCNoUrl
  REPEAT_LIMIT = 3
  StdinComplete = FALSE
  MaxSignals = 2
  MaxCommands = 1
PROPERTIES
  SecondSignalStops
CHECK_DEADLOCK FALSE
