SPECIFICATION Spec
CHECK_DEADLOCK FALSE
CONSTANTS
  m1 = m1
  m2 = m2
  base = base
  jit = jit
  primitive = primitive
  native1 = native1
  Methods = {m1, m2}
  CogEntries = {base}
  Generics = {jit}
  VmEntries = {primitive}
  Natives = {native1}
  Root = base
  Deep = 3
  MaxNative = 3
  MaxChain = 2
INVARIANTS
  SkippedAppear
