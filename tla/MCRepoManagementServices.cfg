SPECIFICATION Spec
CONSTANTS
  Words = {1, 2, 3, 4, 5, 6, 7}
  Urls <- MCUrls
  InitRepos <- MCInitRepos
  InitServices <- MCInitServices
  Offered <- MCOffered
  CommandLines <- Services5
  MaxCommands = 1
INVARIANTS
  ReposAreServices
CHECK_DEADLOCK FALSE
