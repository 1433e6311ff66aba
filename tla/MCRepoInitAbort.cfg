SPECIFICATION Spec
CONSTANTS
  r1 = r1
  r2 = r2
  r3 = r3
  t1 = t1
  nosuch = nosuch
  Known <- MCKnown
  Temp <- MCTemp
  Autorefresh <- All
  Ignored <- OnlyR3
  PlusNamed <- OnlyR2
  PlusKeyword = TRUE
  CommandLines <- MCLines
  Unknown <- MCUnknown
  MaxCommands = 1
INVARIANTS
  AbortIsAnError
CHECK_DEADLOCK FALSE
