SPECIFICATION FairSpec
CHECK_DEADLOCK FALSE
CONSTANTS
  t1 = t1
  t2 = t2
  x = x
  y = y
  Threads = {t1, t2}
  Values = {x, y}
  Blocking = TRUE
  MaxRetries = 2
  Nothing = Nothing
INVARIANTS
  SpyOK
PROPERTIES
  SampleAtOneInstant
  Returns
