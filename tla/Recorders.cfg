SPECIFICATION Spec
CHECK_DEADLOCK FALSE
CONSTANTS
  a = a
  here = here
  there = there
  file_name = file_name
  m1 = m1
  m2 = m2
  NoFile = NoFile
  NoModule = NoModule
  Short <- MCShort
  t1 = t1
  t2 = t2
  p1 = p1
  p2 = p2
  Frames <- MCFrames
  Configs <- MCConfigs
  Threads = {t1, t2}
  Chain <- MCChain
  MaxDepth = 2
  MaxTraces = 3
  Unmatched = Unmatched
INVARIANTS
  SlicesAreStacks
  ProfilesDecode
  FormatsAgree
PROPERTIES
  SlicesGoOn
