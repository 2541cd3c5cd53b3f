SPECIFICATION Spec
CONSTANTS
  Key <- MCKey
  Rank <- MCRank
  OtherRank <- MCRank
  MovedFrom <- Copied
  MaxBulk = 3
  MaxSpare = 1
  Dangling = Dangling
  Null = Null
INVARIANTS AlwaysValid InsertReturnsTheKey
PROPERTIES ImplementsSetButEraseKey
CHECK_DEADLOCK FALSE
