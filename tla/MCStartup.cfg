SPECIFICATION Spec
CONSTANTS
  Lines <- MCAllLines
  Scenarios <- MCScenarios
INVARIANTS
  TypeOK
  OptionsMean
  ExecutesGuarded
  ChildHandOver
PROPERTIES
  UnattendedEnds
CHECK_DEADLOCK FALSE
