SPECIFICATION Spec
CONSTANTS
  NULL = NULL
  Addr = {a1, a2, a3, a4}
  Items = {0, 1, 2, 3, 4, 5}
  Order <- MCOrder
  Key <- MCKey
  Hash <- MCHash
  InitialBuckets = 2
  ResizeRatio = 1
  IncreaseSizeBy = 2
INVARIANTS
  LibrarySane
  IterationComplete
PROPERTY
  ContainersSpec
