SPECIFICATION FairSpec
CONSTANTS
  u1 = u1
  u2 = u2
  none = none
  Receivers <- MCReceivers
  Urls <- OneUrl
  NoUrl <- MCNoUrl
  REPEAT_LIMIT = 3
  StdinComplete = TRUE
  MaxSignals = 3
  MaxCommands = 1
INVARIANTS
  TypeOK
  GuardedExitNeedsTwoSignals
  CutCommitReported
  ExitBookkeeping
  ZeroMeansNothingToReport
PROPERTIES
  KeepsPromise
  SignalsStop
