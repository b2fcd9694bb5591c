CONSTANTS
  d1 = d1
  d2 = d2
  p1 = p1
  k1 = k1
  None = None
  Dirs <- TwoDirs
  Paths <- OnePath
  Shown <- OnePath
  Checks <- OneCheck
  MaxVersion = 2
  MaxOps = 3
  MaxBatches = 0
  MayExit = FALSE
  Prompt = TRUE
SPECIFICATION Spec
SYMMETRY Symmetry
INVARIANTS
  LoadsAccountedFor
  
  OneReloadAhead
PROPERTIES
  NeverOlder
