SPECIFICATION FairSpec
CONSTANTS
  a = a
  s = s
  t = t
  p1 = p1
  p2 = p2
  none = none
  CommandLines <- MCLines
  Solutions <- MCSolutions
  ForceCommands <- NoForce
  Patches <- MCPatches
  Things <- MCThings
  Sources <- MCSources
  NoPlan <- MCNoPlan
  MaxCommands = 2
INVARIANTS
  TypeOK
  AgreedInformed
  ZeroMeansDone
  MarkerRight
  OnlyOwnMarks
PROPERTIES
  HonoursConsent
  NonInteractiveEnds
CHECK_DEADLOCK FALSE
