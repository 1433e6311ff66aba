SPECIFICATION Spec
CONSTANTS
  Words = {1, 2, 3, 4, 5, 6, 7}
  Urls <- MCUrls
  InitRepos <- MCInitRepos
  InitServices <- MCInitServices
  Offered <- MCOffered
  CommandLines <- MCCommandLines
  MaxCommands = 2
INVARIANTS
  TypeOK
  ZeroMeansServed
PROPERTIES
  OnlyNamedChange
CHECK_DEADLOCK FALSE
