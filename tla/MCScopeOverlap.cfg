SPECIFICATION Spec
CONSTANTS
  Segments = {"a", "b"}
  MaxScopes = 50
  MaxDepth = 3
INVARIANTS
  NormalizedScopesAreClean
  RefusesExactlyEscapes
  OverlapIsSharedFile
CHECK_DEADLOCK FALSE
