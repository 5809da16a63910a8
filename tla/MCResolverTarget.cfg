SPECIFICATION ResolverSpec
CONSTANTS
  Paths = {"t", "a", "b", "c", "d"}
  Target = "t"
  MaxVersion = 2
  Worlds <- Circular
  Workers = 2
  MaxFaults = 1
INVARIANT
  TargetIsKept
