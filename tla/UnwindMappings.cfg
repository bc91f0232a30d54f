SPECIFICATION FairSpec
CONSTANTS
  t1 = t1
  t2 = t2
  p = p
  l = l
  k = k
  Threads = {t1, t2}
  Places = {p}
  Libs = {l, k}
  Usable = {l}
  Jit = Jit
  Top = 3
  Window = 2
  Interval = 2
  MaxChanges = 2
  Nothing = Nothing
INVARIANTS
  UnwindOK
PROPERTIES
  CopiesRecover
  NewPlacesGetInfo
