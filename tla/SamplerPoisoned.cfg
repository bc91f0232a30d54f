SPECIFICATION FairSpec
CONSTANTS
  Root = root
  Children = {c1}
  NoPid = NoPid
  LeavesEarly = TRUE
  Retries = 2
  Protected = {}
  DeadOpens = TRUE
  ListingFails = TRUE
PROPERTIES
  DropReturns
