SPECIFICATION CommandSpec
CHECK_DEADLOCK FALSE
CONSTANTS
  a = a
  b = b
  c = c
  program = program
  Procs = {a, b, c, program}
  Program = program
  Worlds <- MCWorlds
  Limits = {0, 3}
  MaxQueue = 2
  Nothing = Nothing
INVARIANTS
  RecordingOK
  AtMostOneAfterControlC
  NothingLost
  OnlyVm
  ProgramEnded
  CommandOK
PROPERTIES
  Ends
