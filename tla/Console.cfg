SPECIFICATION Spec
CHECK_DEADLOCK FALSE
CONSTANTS
  a = a
  b = b
  Frames <- MCFrames
  Inputs <- MCInputs
  Terminals <- MCTerminals
  Quick = {2}
  Refresh = 3
  IncludeIdle = FALSE
  MaxInputs = 3
INVARIANTS
  ConsoleOK
  KeysShown
  DrawnIfLargeEnough
