CONSTANTS
  a = a
  b = b
  c = c
  Paths <- ThreePaths
  Listings <- ThreeListings
  Counts <- ThreeCounts
  Picks <- TwoPicks
SPECIFICATION Spec
PROPERTIES
  VisualFollowsCursor
  MovesTouchPassedOnly
  ClearedCanBeRestored
