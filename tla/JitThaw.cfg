SPECIFICATION Spec
CONSTANTS
  a = a
  b = b
  Methods = {a, b}
  LenOf <- Lengths
  Base = 1
  Limit = 6
  EntrySpan = 3
  Kinds <- BothKinds
INVARIANTS
  NamedAsFrozen
