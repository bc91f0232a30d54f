SPECIFICATION TraceSpec
CHECK_DEADLOCK FALSE
CONSTANTS
  p1 = p1
  p2 = p2
  p3 = p3
  base = base
  primitive = primitive
  native1 = native1
  None = None
  Null = Null
  Lost = Lost
  Words <- MCWords
  SelectorTexts <- MCSelectorTexts
  ClassTexts <- MCClassTexts
  MaxDepth = 4
  MemoryIds <- MCMemoryIds
  Memory <- MCMemory
  FrameLimit = 4
  Methods <- MCMethods
  CogEntries = {base}
  Generics <- MCGenerics
  VmEntries = {primitive}
  Natives = {native1}
  Root = base
  Deep = 3
  MaxNative = 5
  MaxChain = 2
  NativeFrames <- MCNativeFrames
  ManyNative <- StitchKeys
  TrueName <- MCTrueName
  FewNative = 1
INVARIANTS
  InOrder
  NoMethodTwice
  NothingElseLost
  WalkTrue
  NamesTrue
  CallersShown
PROPERTIES
  RootedInSmalltalk
