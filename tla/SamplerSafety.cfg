SPECIFICATION Spec
CONSTANTS
  Root = root
  Children = {c1, c2}
  NoPid = NoPid
  LeavesEarly = FALSE
  Retries = 1
  Protected = {}
  DeadOpens = FALSE
  ListingFails = FALSE
SYMMETRY ChildSymmetry
INVARIANTS
  SamplerInv
  SampleComplete
  InfoCurrent
