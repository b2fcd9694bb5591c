CONSTANTS
  h1 = h1
  h2 = h2
  c1 = c1
  c2 = c2
  c3 = c3
  c4 = c4
  None = None
  Hooks <- TwoHooks
  Callbacks <- FourCallbacks
  MaxDepth = 2
  MaxOps = 7
  RemoveTwice = FALSE
SPECIFICATION FairSpec
INVARIANTS
  HooksAreThoseAdded
PROPERTIES
  RunsAreExact
