SPECIFICATION DownloadsSpec
CONSTANTS
  Patches <- MCPatches
  Packages <- MCPackages
  Scenes <- MCScenes
  Names <- MCNames
  Hits <- MCHits
  Repos <- MCRepos
  Within <- MCWithin
  SourceOf <- MCSourceOf
  Matching <- MCMatching
  MaxLocks = 3
  MaxRounds = 2
INVARIANTS
  DownloadsTypeOK
  TwoRoundsSuffice
PROPERTIES
  ListsAgree
  LocksAsNamed
  FilesFit
CHECK_DEADLOCK FALSE
