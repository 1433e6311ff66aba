SPECIFICATION Spec
CONSTANTS
  none = none
  Packages <- MCPackages
  Patches <- MCPatches
  Repos <- MCRepos
  Priority <- MCPriority
  Archs = {"x86", "i586"}
  Vendors = {"us", "them"}
  Caps <- MCCaps
  Issues <- MCIssues
  FixedBy <- MCFixedBy
  Lines <- MCLines
  Pools <- MCPools
  NoItem <- MCNoItem
INVARIANT PatternUpdatesAll
CHECK_DEADLOCK FALSE
