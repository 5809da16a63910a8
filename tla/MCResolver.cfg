SPECIFICATION ResolverSpec
CONSTANTS
  Paths = {"t", "a", "b", "c", "d"}
  Target = "t"
  MaxVersion = 2
  Worlds <- MCWorlds
  Workers = 2
  MaxFaults = 1
INVARIANTS
    GraphIsSelected
    EdgesEndAtNodes
    PathsAreFollowed
    ScopeIsFetched
PROPERTIES
    ResolutionEnds
